---------------------------- MODULE Spec2Model ----------------------------
(***************************************************************************)
(* A model of the FITS header decoder of fits-rs: the 80-byte header line  *)
(* grammar (parser/header.rs), the keyword classifier (types/keyword.rs),  *)
(* the value grammar, and the streaming header assembler HeaderParser      *)
(* (parser/helper.rs).  Byte slices are TLA+ strings; a nom parser is an   *)
(* operator from the input to a result [tag, rest, val].                   *)
(***************************************************************************)
EXTENDS Integers, Sequences, FiniteSets, TLC

VARIABLES
    records,     \* HeaderParser.records
    parse_more,  \* HeaderParser.parse_more
    start,       \* HeaderParser.start
    consumed,    \* HeaderParser.consumed
    op,          \* the last operation: "new", "parse_record", "into_header", ...
    input,       \* the argument of the last call
    outcome,     \* what the last call returned: [tag, rem]
    header,      \* the Header produced by into_header: <<>> or <<Header>>
    stream,      \* chunked feeding: the whole byte stream
    fed,         \* chunked feeding: the bytes of stream that have arrived
    buf,         \* chunked feeding: the caller's bytes not yet consumed
    completes,   \* chunked feeding: the Complete outcomes so far
    whole        \* chunked feeding: parse_header on the whole stream at once

vars == <<records, parse_more, start, consumed, op, input, outcome, header,
          stream, fed, buf, completes, whole>>

-----------------------------------------------------------------------------
(* Program constants.                                                      *)

KEYWORD_LINE_LENGTH == 80
FITS_BLOCK_SIZE == 36 * KEYWORD_LINE_LENGTH

-----------------------------------------------------------------------------
(* Byte slices.                                                            *)

(* The value of an expression, computed once and handed to a continuation. *)
With(v, f(_)) == CHOOSE y \in {f(x) : x \in {v}} : TRUE

Take(s, n) == SubSeq(s, 1, n)
Drop(s, n) == SubSeq(s, n + 1, Len(s))
StartsWith(s, t) == Len(s) >= Len(t) /\ SubSeq(s, 1, Len(t)) = t

RECURSIVE Repeat(_, _)
Repeat(s, n) == IF n <= 0 THEN "" ELSE s \o Repeat(s, n - 1)

Spaces(n) == Repeat(" ", n)

(* s padded with spaces to a whole 80-byte line. *)
Pad(s) == s \o Spaces(KEYWORD_LINE_LENGTH - Len(s))

Digits == {"0", "1", "2", "3", "4", "5", "6", "7", "8", "9"}

DigitVal == ("0" :> 0) @@ ("1" :> 1) @@ ("2" :> 2) @@ ("3" :> 3) @@ ("4" :> 4)
            @@ ("5" :> 5) @@ ("6" :> 6) @@ ("7" :> 7) @@ ("8" :> 8) @@ ("9" :> 9)

(* nom::character::complete::multispace0 eats these. *)
MultiSpace == {" ", "\t", "\r", "\n"}

(* str::trim_end strips these (the ASCII members of White_Space). *)
WhiteSpace == {" ", "\t", "\r", "\n", "\f"}

(* Space - '~': bytes 32..=126 (byte 96, the grave accent, cannot be written *)
(* in a TLA+ string and is left out of the alphabet of the model).          *)
AsciiText ==
    {" ", "!", "\"", "#", "$", "%", "&", "'", "(", ")", "*", "+", ",", "-", ".", "/",
     "0", "1", "2", "3", "4", "5", "6", "7", "8", "9", ":", ";", "<", "=", ">", "?",
     "@", "A", "B", "C", "D", "E", "F", "G", "H", "I", "J", "K", "L", "M", "N", "O",
     "P", "Q", "R", "S", "T", "U", "V", "W", "X", "Y", "Z", "[", "\\", "]", "^", "_",
     "a", "b", "c", "d", "e", "f", "g", "h", "i", "j", "k", "l", "m", "n", "o",
     "p", "q", "r", "s", "t", "u", "v", "w", "x", "y", "z", "{", "|", "}", "~"}

is_ascii_text_char(chr) == chr \in AsciiText

is_string_text_char(chr) == is_ascii_text_char(chr) /\ chr # "'"

StringText == {c \in AsciiText : is_string_text_char(c)}

(* The length of the longest prefix of s whose bytes are all in set. *)
Span(s, set) ==
    (CHOOSE j \in 1..(Len(s) + 1) :
        /\ j > Len(s) \/ SubSeq(s, j, j) \notin set
        /\ \A k \in 1..(j - 1) : SubSeq(s, k, k) \in set) - 1

(* The length of s without its trailing bytes in set. *)
TrimLen(s, set) ==
    CHOOSE j \in 0..Len(s) :
        /\ j = 0 \/ SubSeq(s, j, j) \notin set
        /\ \A k \in (j + 1)..Len(s) : SubSeq(s, k, k) \in set

trim_end(s) == Take(s, TrimLen(s, WhiteSpace))

StripZeros(s) == Drop(s, Span(s, {"0"}))

(* For digit strings of one length: a <= b. *)
DigitsLE(a, b) ==
    \/ a = b
    \/ \E i \in 1..Len(a) :
          /\ Take(a, i - 1) = Take(b, i - 1)
          /\ DigitVal[SubSeq(a, i, i)] < DigitVal[SubSeq(b, i, i)]

(* The value of the first n bytes of a short digit string. *)
RECURSIVE DecVal(_, _)
DecVal(s, n) ==
    IF n <= 0 THEN 0 ELSE 10 * DecVal(s, n - 1) + DigitVal[SubSeq(s, n, n)]

-----------------------------------------------------------------------------
(* nom results.  tag is "Ok", "Error" (recoverable: alt tries the next     *)
(* alternative) or "Incomplete" (alt returns it at once).                  *)

POk(rest, val) == [tag |-> "Ok", rest |-> rest, val |-> val]
PErr(in) == [tag |-> "Error", rest |-> in, val |-> <<>>]
PIncomplete(in) == [tag |-> "Incomplete", rest |-> in, val |-> <<>>]

IsOk(r) == r.tag = "Ok"

None == <<>>
Some(x) == <<x>>

(* tag(t) *)
tag(t, in) == IF StartsWith(in, t) THEN POk(Drop(in, Len(t)), t) ELSE PErr(in)

(* take_while(set) and take_while1(set) *)
take_while(set, in) ==
    With(Span(in, set), LAMBDA k : POk(Drop(in, k), Take(in, k)))

take_while1(set, in) ==
    With(Span(in, set), LAMBDA k : IF k = 0 THEN PErr(in) ELSE POk(Drop(in, k), Take(in, k)))

multispace0(in) == take_while(MultiSpace, in)

(* many0(tag(" ")) *)
many0_space(in) == take_while({" "}, in)

(* A variant that succeeds whatever is left. *)
eof_anywhere(in) == POk(in, "")

(* eof *)
eof(in) == IF Len(in) = 0 THEN POk(in, "") ELSE PErr(in)

(* opt(p), given p's result on in: an Error of p becomes None with nothing *)
(* consumed.                                                                *)
opt(r, in) ==
    With(r, LAMBDA x :
        IF x.tag = "Ok" THEN POk(x.rest, Some(x.val))
        ELSE IF x.tag = "Error" THEN POk(in, None)
        ELSE x)

(* alt of two parsers: b is tried only when a ends in a recoverable Error.  *)
alt2(a, b) == With(a, LAMBDA r : IF r.tag # "Error" THEN r ELSE b)

(* terminated(inner, eof), given inner's result: inner's value, if nothing *)
(* is left.                                                                 *)
terminated_eof(r) ==
    With(r, LAMBDA a :
        IF ~IsOk(a) THEN a
        ELSE With(eof(a.rest), LAMBDA b : IF IsOk(b) THEN POk(b.rest, a.val) ELSE b))

(* terminated(inner, many0(tag(" "))), given inner's result: inner's value, *)
(* the spaces after it dropped.                                             *)
terminated_padding(r) ==
    With(r, LAMBDA a : IF ~IsOk(a) THEN a ELSE POk(many0_space(a.rest).rest, a.val))

(* ws(inner) is delimited(multispace0, inner, multispace0): ws_leading is  *)
(* what inner is given, and ws, given inner's result, drops what follows.  *)
ws_leading(in) == multispace0(in).rest

ws(r) ==
    With(r, LAMBDA x : IF IsOk(x) THEN POk(multispace0(x.rest).rest, x.val) ELSE x)

(* length_value(success(len), terminated(inner, eof)): inner is given      *)
(* exactly the next len bytes (length_take), and exact_length, given        *)
(* inner's result on them, returns what follows them as remainder.          *)
length_take(len, in) == Take(in, len)

exact_length(len, r, in) ==
    IF Len(in) < len THEN PIncomplete(in)
    ELSE With(terminated_eof(r), LAMBDA x :
             IF x.tag = "Incomplete" THEN PErr(length_take(len, in))
             ELSE IF x.tag = "Error" THEN x
             ELSE POk(Drop(in, len), x.val))

(* The bytes parse_keyword_line hands to inner. *)
keyword_line(in) == length_take(KEYWORD_LINE_LENGTH, in)

(* parse_keyword_line(inner), given inner's result on keyword_line(in). *)
parse_keyword_line(r, in) == exact_length(KEYWORD_LINE_LENGTH, terminated_padding(r), in)

(* Keyword classification (types/keyword.rs).                              *)

FixedKeywords ==
    {"AV", "BITPIX", "CAMPAIGN", "CHANNEL", "CHECKSUM", "COMMENT", "CREATOR",
     "DATASUM", "DATA_REL", "DATE", "DEC_OBJ", "EBMINUSV", "END", "EQUINOX",
     "EXTEND", "EXTNAME", "EXTVER", "FEH", "FILEVER", "GCOUNT", "GKCOLOR",
     "GLAT", "GLON", "GMAG", "GRCOLOR", "HISTORY", "HMAG", "IMAG", "INSTRUME",
     "JKCOLOR", "JMAG", "KEPLERID", "KEPMAG", "KMAG", "LOGG", "MISSION",
     "MODULE", "NAXIS", "NEXTEND", "OBJECT", "OBSMODE", "ORIGIN", "OUTPUT",
     "PARALLAX", "PCOUNT", "PMDEC", "PMRA", "PMTOTAL", "PROCVER", "RADESYS",
     "RADIUS", "RA_OBJ", "RMAG", "SIMPLE", "TEFF", "TELESCOP", "TFIELDS",
     "THEAP", "TIMVERSN", "TMINDEX", "TTABLEID", "XTENSION", "ZMAG"}

(* The indexed families, in the order from_str scans them. *)
Prefixes == <<"TDIM", "TDISP", "TFORM", "NAXIS", "TNULL", "TSCAL", "TTYPE", "TUNIT", "TZERO">>

(* A Keyword: a fixed name, a family member NAMEn(n), or Unrecognized(name). *)
KwFixed(name) == [kind |-> "Fixed", name |-> name, n |-> 0]
KwIndexed(prefix, n) == [kind |-> "Indexed", name |-> prefix, n |-> n]
KwUnrecognized(text) == [kind |-> "Unrecognized", name |-> text, n |-> 0]

(* u16::from_str: an optional '+', then one or more digits, at most 65535. *)
u16_from_str(s) ==
    With(IF StartsWith(s, "+") THEN Drop(s, 1) ELSE s, LAMBDA body :
        With(StripZeros(body), LAMBDA z :
            IF Len(body) = 0 \/ Span(body, Digits) # Len(body) THEN [ok |-> FALSE, val |-> 0]
            ELSE IF Len(z) > 5 THEN [ok |-> FALSE, val |-> 0]
            ELSE With(DecVal(z, Len(z)), LAMBDA n :
                     IF n > 65535 THEN [ok |-> FALSE, val |-> 0] ELSE [ok |-> TRUE, val |-> n])))

(* PrefixedKeyword::handles *)
handles(prefix, in) == StartsWith(in, prefix)

(* PrefixedKeyword::transform *)
transform(prefix, in) ==
    With(u16_from_str(Drop(in, Len(prefix))), LAMBDA n :
        IF n.ok THEN [tag |-> "Ok", val |-> KwIndexed(prefix, n.val)]
        ELSE [tag |-> "Err", val |-> KwUnrecognized("NotANumber")])

(* KeywordText::new asserts that the text has at most 8 bytes. *)
KeywordText_new(text) ==
    IF Len(text) <= 8 THEN [tag |-> "Ok", val |-> KwUnrecognized(text)]
    ELSE [tag |-> "Panic", val |-> KwUnrecognized("")]

(* A variant that scans the family prefixes before the fixed names. *)
Keyword_from_str_prefix_first(s) ==
    With(trim_end(s), LAMBDA t :
        With({i \in 1..Len(Prefixes) : handles(Prefixes[i], t)}, LAMBDA hits :
            IF hits # {}
            THEN transform(Prefixes[CHOOSE i \in hits : \A j \in hits : i <= j], t)
            ELSE IF t \in FixedKeywords THEN [tag |-> "Ok", val |-> KwFixed(t)]
            ELSE KeywordText_new(t)))

(* Keyword::from_str: tag is "Ok", "Err" (NotANumber) or "Panic". *)
Keyword_from_str(s) ==
    With(trim_end(s), LAMBDA t :
        IF t \in FixedKeywords THEN [tag |-> "Ok", val |-> KwFixed(t)]
        ELSE With({i \in 1..Len(Prefixes) : handles(Prefixes[i], t)}, LAMBDA hits :
                 IF hits # {}
                 THEN transform(Prefixes[CHOOSE i \in hits : \A j \in hits : i <= j], t)
                 ELSE KeywordText_new(t)))

-----------------------------------------------------------------------------
(* The value grammar (parser/header.rs).                                   *)

VCharacterString(s) == [type |-> "CharacterString", v |-> s]
VLogical(b) == [type |-> "Logical", v |-> b]
VInteger(n) == [type |-> "Integer", v |-> n]
VReal(f) == [type |-> "Real", v |-> f]
VComplexInteger(p) == [type |-> "ComplexInteger", v |-> p]
VComplex(p) == [type |-> "Complex", v |-> p]
VUndefined == [type |-> "Undefined", v |-> <<>>]

I64_MAX == "9223372036854775807"
I64_MIN_MAGNITUDE == "9223372036854775808"

(* i64::from_str: an optional sign, one or more digits, within the range of *)
(* i64.  The value is kept as its canonical decimal text, so that no 64-bit *)
(* number is ever computed with.                                            *)
i64_from_str(s) ==
    With(IF StartsWith(s, "-") \/ StartsWith(s, "+") THEN Drop(s, 1) ELSE s, LAMBDA body :
        With(StripZeros(body), LAMBDA mag :
            With(IF StartsWith(s, "-") THEN I64_MIN_MAGNITUDE ELSE I64_MAX, LAMBDA limit :
                IF Len(body) = 0 \/ Span(body, Digits) # Len(body)
                THEN [ok |-> FALSE, val |-> ""]
                ELSE IF Len(mag) > Len(limit) \/ (Len(mag) = Len(limit) /\ ~DigitsLE(mag, limit))
                     THEN [ok |-> FALSE, val |-> ""]
                ELSE IF mag = "" THEN [ok |-> TRUE, val |-> "0"]
                ELSE [ok |-> TRUE, val |-> (IF StartsWith(s, "-") THEN "-" ELSE "") \o mag])))

(* A variant that keeps the trailing spaces. *)
character_string_value_untrimmed(in) ==
    With(tag("'", in), LAMBDA q :
        IF ~IsOk(q) THEN PErr(in)
        ELSE With(take_while(StringText, q.rest), LAMBDA t :
                 With(tag("'", t.rest), LAMBDA e :
                     IF IsOk(e) THEN POk(e.rest, VCharacterString(t.val))
                     ELSE PErr(in))))

character_string_value(in) ==
    With(tag("'", in), LAMBDA q :
        IF ~IsOk(q) THEN PErr(in)
        ELSE With(take_while(StringText, q.rest), LAMBDA t :
                 With(tag("'", t.rest), LAMBDA e :
                     IF IsOk(e) THEN POk(e.rest, VCharacterString(trim_end(t.val)))
                     ELSE PErr(in))))

logical_value(in) ==
    IF IsOk(tag("T", in)) THEN POk(Drop(in, 1), VLogical(TRUE))
    ELSE IF IsOk(tag("F", in)) THEN POk(Drop(in, 1), VLogical(FALSE))
    ELSE PErr(in)

(* sign: opt(alt((tag("+"), tag("-")))) *)
sign(in) ==
    IF StartsWith(in, "+") \/ StartsWith(in, "-")
    THEN POk(Drop(in, 1), Some(Take(in, 1))) ELSE POk(in, None)

(* The bytes of in that a parser consumed, given what it left. *)
recognize(in, rest) == Take(in, Len(in) - Len(rest))

(* if an integer has a '.' after, we assume its a float and shouldn't parse *)
integer(in) ==
    With(take_while1(Digits, sign(in).rest), LAMBDA d :
        IF ~IsOk(d) THEN PErr(in)
        ELSE IF StartsWith(d.rest, ".") THEN PErr(in)
        ELSE With(i64_from_str(recognize(in, d.rest)), LAMBDA n :
                 IF n.ok THEN POk(d.rest, n.val) ELSE PErr(in)))

integer_value(in) ==
    With(integer(in), LAMBDA r : IF IsOk(r) THEN POk(r.rest, VInteger(r.val)) ELSE r)

number_part(in) == take_while1(Digits, in)

decimal_number_must_integer(in) ==
    With(number_part(in), LAMBDA n :
        IF ~IsOk(n) THEN PErr(in)
        ELSE With(tag(".", n.rest), LAMBDA dot :
                 IF ~IsOk(dot) THEN POk(n.rest, n.val)
                 ELSE With(opt(number_part(dot.rest), dot.rest), LAMBDA f :
                          POk(f.rest, recognize(in, f.rest)))))

decimal_number_must_fractional(in) ==
    With(opt(number_part(in), in), LAMBDA n :
        With(tag(".", n.rest), LAMBDA dot :
            IF ~IsOk(dot) THEN PErr(in)
            ELSE With(number_part(dot.rest), LAMBDA f :
                     IF IsOk(f) THEN POk(f.rest, recognize(in, f.rest)) ELSE PErr(in))))

decimal_number(in) ==
    With(sign(in), LAMBDA s :
        With(alt2(decimal_number_must_integer(s.rest), decimal_number_must_fractional(s.rest)),
             LAMBDA r : IF IsOk(r) THEN POk(r.rest, recognize(in, r.rest)) ELSE PErr(in)))

exponent_letter(in) == alt2(tag("E", in), tag("D", in))

exponent(in) ==
    With(exponent_letter(in), LAMBDA l :
        IF ~IsOk(l) THEN PErr(in)
        ELSE With(number_part(sign(l.rest).rest), LAMBDA n :
                 IF IsOk(n) THEN POk(n.rest, recognize(in, n.rest)) ELSE PErr(in)))

(* The exact decimal digits * 10^exp, negated when neg, with no leading or  *)
(* trailing zero in digits.                                                 *)
Decimal(neg, int_part, frac_part, e) ==
    With(StripZeros(int_part \o frac_part), LAMBDA mant :
        With(TrimLen(mant, {"0"}), LAMBDA kept :
            IF kept = 0 THEN [neg |-> FALSE, digits |-> "0", exp |-> 0]
            ELSE [neg |-> neg,
                  digits |-> Take(mant, kept),
                  exp |-> e - Len(frac_part) + (Len(mant) - kept)]))

(* The exponent of a float literal, from the bytes after the fraction: none *)
(* when nothing follows, a signed number after 'E' or 'e' (never 'D').      *)
f64_exponent(s) ==
    IF Len(s) = 0 THEN [ok |-> TRUE, val |-> 0]
    ELSE IF ~(StartsWith(s, "E") \/ StartsWith(s, "e")) THEN [ok |-> FALSE, val |-> 0]
    ELSE With(sign(Drop(s, 1)), LAMBDA es :
             With(take_while1(Digits, es.rest), LAMBDA ed :
                 IF ~IsOk(ed) \/ Len(ed.rest) # 0 THEN [ok |-> FALSE, val |-> 0]
                 ELSE With(StripZeros(ed.val), LAMBDA ez :
                          With(IF Len(ez) > 4 THEN 10000 ELSE DecVal(ez, Len(ez)), LAMBDA ev :
                              [ok |-> TRUE,
                               val |-> IF es.val = Some("-") THEN 0 - ev ELSE ev]))))

(* f64::from_str on a decimal literal: an optional sign, digits with an     *)
(* optional '.', and an optional exponent.  The value is kept as an exact   *)
(* decimal; the rounding to the nearest double is not modelled.             *)
f64_from_str(s) ==
    With(sign(s), LAMBDA sg :
        With(take_while(Digits, sg.rest), LAMBDA ip :
            With(IF StartsWith(ip.rest, ".") THEN take_while(Digits, Drop(ip.rest, 1))
                 ELSE POk(ip.rest, ""), LAMBDA fp :
                With(f64_exponent(fp.rest), LAMBDA e :
                    IF Len(ip.val) + Len(fp.val) = 0 \/ ~e.ok
                    THEN [ok |-> FALSE, val |-> Decimal(FALSE, "", "", 0)]
                    ELSE [ok |-> TRUE,
                          val |-> Decimal(sg.val = Some("-"), ip.val, fp.val, e.val)]))))

floating(in) ==
    With(decimal_number(in), LAMBDA d :
        IF ~IsOk(d) THEN PErr(in)
        ELSE With(opt(exponent(d.rest), d.rest), LAMBDA e :
                 With(f64_from_str(recognize(in, e.rest)), LAMBDA f :
                     IF f.ok THEN POk(e.rest, f.val) ELSE PErr(in))))

floating_value(in) ==
    With(floating(in), LAMBDA r : IF IsOk(r) THEN POk(r.rest, VReal(r.val)) ELSE r)

(* The parsers pair_values is built with, by name. *)
pair_part(name, in) == IF name = "integer" THEN integer(in) ELSE floating(in)

(* Parse the results of two sub-parsers contained in a structure like ( A , B ) *)
pair_values(first, second, in) ==
    With(tag("(", in), LAMBDA open :
        IF ~IsOk(open) THEN PErr(in)
        ELSE With(ws_leading(open.rest), LAMBDA i : With(ws(pair_part(first, i)), LAMBDA a :
            IF ~IsOk(a) THEN PErr(in)
            ELSE With(tag(",", a.rest), LAMBDA comma :
                IF ~IsOk(comma) THEN PErr(in)
                ELSE With(ws_leading(comma.rest), LAMBDA j : With(ws(pair_part(second, j)), LAMBDA b :
                    IF ~IsOk(b) THEN PErr(in)
                    ELSE With(tag(")", b.rest), LAMBDA close :
                        IF IsOk(close) THEN POk(close.rest, <<a.val, b.val>>)
                        ELSE PErr(in))))))))

complex_integer_value(in) ==
    With(pair_values("integer", "integer", in), LAMBDA r :
        IF IsOk(r) THEN POk(r.rest, VComplexInteger(r.val)) ELSE r)

complex_floating_value(in) ==
    With(pair_values("floating", "floating", in), LAMBDA r :
        IF IsOk(r) THEN POk(r.rest, VComplex(r.val)) ELSE r)

value(in) ==
    alt2(character_string_value(in),
    alt2(logical_value(in),
    alt2(integer_value(in),
    alt2(floating_value(in),
    alt2(complex_integer_value(in), complex_floating_value(in))))))

-----------------------------------------------------------------------------
(* The header line grammar (parser/header.rs).                             *)

KeywordRecord(keyword, val, cmt) ==
    [type |-> "KeywordRecord", keyword |-> keyword, value |-> val, comment |-> cmt]
CommentaryRecord(keyword, commentary) ==
    [type |-> "CommentaryRecord", keyword |-> keyword, value |-> VUndefined, comment |-> commentary]
EndRecord ==
    [type |-> "EndRecord", keyword |-> KwFixed("END"), value |-> VUndefined, comment |-> None]
BlankRecord(cmt) ==
    [type |-> "BlankRecord", keyword |-> KwUnrecognized(""), value |-> VUndefined, comment |-> cmt]

(* map_res(map_res(take(8), from_utf8), Keyword::from_str) *)
keyword_field(in) ==
    IF Len(in) < 8 THEN PErr(in)
    ELSE With(Keyword_from_str(Take(in, 8)), LAMBDA k :
             IF k.tag = "Ok" THEN POk(Drop(in, 8), k.val) ELSE PErr(in))

comment_keyword(in) ==
    With(tag("COMMENT ", in), LAMBDA t :
        IF ~IsOk(t) THEN PErr(in)
        ELSE With(Keyword_from_str(t.val), LAMBDA k :
                 IF k.tag = "Ok" THEN POk(t.rest, k.val) ELSE PErr(in)))

history_keyword(in) ==
    With(tag("HISTORY ", in), LAMBDA t :
        IF ~IsOk(t) THEN PErr(in)
        ELSE With(Keyword_from_str(t.val), LAMBDA k :
                 IF k.tag = "Ok" THEN POk(t.rest, k.val) ELSE PErr(in)))

value_indicator(in) == tag("= ", in)

commenatry_text(in) ==
    With(take_while(AsciiText, in), LAMBDA t : POk(t.rest, trim_end(t.val)))

ascii_text(in) == take_while(AsciiText, in)

(* A variant that keeps the spaces after the text. *)
comment_untrimmed(in) ==
    With(tag("/", in), LAMBDA slash :
        IF ~IsOk(slash) THEN PErr(in)
        ELSE With(ws_leading(slash.rest), LAMBDA i :
                 With(ws(ascii_text(i)), LAMBDA t : POk(t.rest, t.val))))

comment(in) ==
    With(tag("/", in), LAMBDA slash :
        IF ~IsOk(slash) THEN PErr(in)
        ELSE With(ws_leading(slash.rest), LAMBDA i :
                 With(ws(ascii_text(i)), LAMBDA t : POk(t.rest, trim_end(t.val)))))

opt_value(in) == opt(value(in), in)

opt_comment(in) == opt(comment(in), in)

(* The four record shapes before parse_keyword_line pads and bounds them.  *)
commentary_shape(in) ==
    With(alt2(comment_keyword(in), history_keyword(in)), LAMBDA k :
        IF ~IsOk(k) THEN PErr(in)
        ELSE With(opt(commenatry_text(k.rest), k.rest), LAMBDA t :
                 POk(t.rest, CommentaryRecord(k.val, t.val))))

value_shape(in) ==
    With(keyword_field(in), LAMBDA k :
        IF ~IsOk(k) THEN PErr(in)
        ELSE With(value_indicator(k.rest), LAMBDA i :
            IF ~IsOk(i) THEN PErr(in)
            ELSE With(ws_leading(i.rest), LAMBDA j : With(ws(opt_value(j)), LAMBDA v :
                With(opt_comment(v.rest), LAMBDA c :
                    POk(c.rest,
                        KeywordRecord(k.val,
                                      IF v.val = None THEN VUndefined ELSE v.val[1],
                                      c.val)))))))

end_shape(in) ==
    With(tag("END     ", in), LAMBDA t : IF IsOk(t) THEN POk(t.rest, EndRecord) ELSE PErr(in))

blankfield_shape(in) ==
    With(tag("        ", in), LAMBDA t :
        IF ~IsOk(t) THEN PErr(in)
        ELSE With(ws_leading(t.rest), LAMBDA i :
                 With(ws(opt_comment(i)), LAMBDA c : POk(c.rest, BlankRecord(c.val)))))

commentary_keyword_record(in) == parse_keyword_line(commentary_shape(keyword_line(in)), in)
value_keyword_record(in) == parse_keyword_line(value_shape(keyword_line(in)), in)
end_record(in) == parse_keyword_line(end_shape(keyword_line(in)), in)
blankfield_record(in) == parse_keyword_line(blankfield_shape(keyword_line(in)), in)

(* A variant that tries the value shape first. *)
keyword_record_value_first(in) ==
    alt2(value_keyword_record(in), commentary_keyword_record(in))

keyword_record(in) == alt2(commentary_keyword_record(in), value_keyword_record(in))

(* Parse a single record from a header *)
header_record(in) == alt2(keyword_record(in), alt2(end_record(in), blankfield_record(in)))

-----------------------------------------------------------------------------
(* The streaming header assembler HeaderParser (parser/helper.rs).  A      *)
(* HeaderParser is [records, parse_more, start, consumed]; a ParseOutcome  *)
(* is [tag, rem, err] with tag "Ok", "Complete" or "Error", and tag        *)
(* "Panic" stands for the call that panicked and returned nothing.         *)

HeaderParser_new(s) ==
    [records |-> <<>>, parse_more |-> TRUE, start |-> s, consumed |-> 0]

(* A variant that forgets the block boundary. *)
is_complete_at_end(self) == ~self.parse_more

is_complete(self) ==
    ~self.parse_more /\ self.consumed % FITS_BLOCK_SIZE = 0

OutcomeOk(rem) == [tag |-> "Ok", rem |-> rem, err |-> ""]
OutcomeComplete(rem) == [tag |-> "Complete", rem |-> rem, err |-> ""]
OutcomeError(e) == [tag |-> "Error", rem |-> "", err |-> e]
OutcomePanic == [tag |-> "Panic", rem |-> "", err |-> "tried to parse more records after header ended"]
NoOutcome == [tag |-> "None", rem |-> "", err |-> ""]

(* A variant without the arm that panics. *)
match_arm_no_panic(pm, record) ==
    IF pm /\ record.type = "EndRecord" THEN "end"
    ELSE IF ~pm /\ record.type = "BlankRecord" THEN "blank"
    ELSE "other"

(* A variant whose panic arm lets a second END through. *)
match_arm_any_end(pm, record) ==
    IF record.type = "EndRecord" THEN "end"
    ELSE IF ~pm /\ record.type = "BlankRecord" THEN "blank"
    ELSE IF ~pm THEN "panic"
    ELSE "other"

(* The arm of the match on (self.parse_more, &record) that is taken. *)
match_arm(pm, record) ==
    IF pm /\ record.type = "EndRecord" THEN "end"
    ELSE IF ~pm /\ record.type = "BlankRecord" THEN "blank"
    ELSE IF ~pm THEN "panic"
    ELSE "other"

(* A variant that counts the whole input as consumed. *)
consumed_after_whole(c, in, remainder) == c + Len(in)

(* self.consumed += input.len() - remainder.len() *)
consumed_after(c, in, remainder) == c + (Len(in) - Len(remainder))

(* self.records.push(record) *)
push(recs, record) == Append(recs, record)

(* A variant that drops the records gathered so far when the line fails. *)
parse_record_clearing(self, in) ==
    With(header_record(in), LAMBDA r :
        IF ~IsOk(r)
        THEN [self |-> [records |-> <<>>, parse_more |-> self.parse_more,
                        start |-> self.start, consumed |-> self.consumed],
              out |-> OutcomeError(r.tag)]
        ELSE With(match_arm(self.parse_more, r.val), LAMBDA arm :
            IF arm = "panic" THEN [self |-> self, out |-> OutcomePanic]
            ELSE With([records |-> push(self.records, r.val),
                       parse_more |-> IF arm = "end" THEN FALSE ELSE self.parse_more,
                       start |-> self.start,
                       consumed |-> consumed_after(self.consumed, in, r.rest)], LAMBDA after :
                     [self |-> after,
                      out |-> IF is_complete(after) THEN OutcomeComplete(r.rest)
                              ELSE OutcomeOk(r.rest)])))

(* parse single record from buf: the assembler after the call, and what    *)
(* the call returned.                                                      *)
parse_record(self, in) ==
    With(header_record(in), LAMBDA r :
        IF ~IsOk(r) THEN [self |-> self, out |-> OutcomeError(r.tag)]
        ELSE With(match_arm(self.parse_more, r.val), LAMBDA arm :
            IF arm = "panic" THEN [self |-> self, out |-> OutcomePanic]
            ELSE With([records |-> push(self.records, r.val),
                       parse_more |-> IF arm = "end" THEN FALSE ELSE self.parse_more,
                       start |-> self.start,
                       consumed |-> consumed_after(self.consumed, in, r.rest)], LAMBDA after :
                     [self |-> after,
                      out |-> IF is_complete(after) THEN OutcomeComplete(r.rest)
                              ELSE OutcomeOk(r.rest)])))

(* At most n iterations of the loop of parse_header, taken in two halves:  *)
(* more says that the last iteration returned Ok and the loop goes on.     *)
RECURSIVE parse_header_loop(_, _, _)
parse_header_loop(self, in, n) ==
    IF n <= 1
    THEN With(parse_record(self, in), LAMBDA res :
             IF res.out.tag = "Ok" THEN [self |-> res.self, out |-> res.out, more |-> TRUE]
             ELSE IF res.out.tag = "Complete"
                  THEN [self |-> res.self, out |-> OutcomeOk(res.out.rem), more |-> FALSE]
             ELSE [self |-> res.self, out |-> res.out, more |-> FALSE])
    ELSE With(parse_header_loop(self, in, n \div 2), LAMBDA half :
             IF half.more THEN parse_header_loop(half.self, half.out.rem, n - n \div 2)
             ELSE half)

(* Parse a single header from input: the loop over parse_record, which     *)
(* ends within one iteration more than the input has lines.  The result's  *)
(* tag is "Ok" (with the remainder), "Error" or "Panic".                    *)
parse_header(self, in) ==
    With(parse_header_loop(self, in, Len(in) \div KEYWORD_LINE_LENGTH + 1), LAMBDA res :
        [self |-> res.self, out |-> res.out])

(* Header::new *)
Header_new(recs, s, length) == [records |-> recs, start |-> s, length |-> length]

(* Convert this into the `Header` type *)
into_header(self) == Header_new(self.records, self.start, self.consumed)

-----------------------------------------------------------------------------
(* The callers' inputs and the bounds of the model.                        *)

-----------------------------------------------------------------------------
(* The header data model (types/header.rs).                                *)

(* Result<T, E> *)
ROk(v) == [tag |-> "Ok", val |-> v]
RErr(e) == [tag |-> "Err", val |-> e]

(* The i64 that the decimal text of an Integer value stands for; the text  *)
(* has few digits wherever the model computes with it.                      *)
i64_of(text) ==
    IF StartsWith(text, "-") THEN 0 - DecVal(Drop(text, 1), Len(text) - 1)
    ELSE DecVal(text, Len(text))

i64_abs(n) == IF n < 0 THEN 0 - n ELSE n

(* KeywordRecord::new *)
KeywordRecord_new(keyword, val, cmt) == KeywordRecord(keyword, val, cmt)

(* Header::header_end_position *)
header_end_position(self) == self.start + self.length

(* Header::keyword_records: the KeywordRecords among the records, in order. *)
keyword_records(self) == SelectSeq(self.records, LAMBDA r : r.type = "KeywordRecord")

(* Header::has_keyword_record *)
has_keyword_record(self, keyword) ==
    With(keyword_records(self), LAMBDA krs :
        \E i \in 1..Len(krs) : keyword = krs[i].keyword)

(* Header::is_primary *)
is_primary(self) == has_keyword_record(self, KwFixed("SIMPLE"))

(* A variant that returns the value of the last keyword record with the keyword. *)
value_of_last(self, keyword) ==
    With(keyword_records(self), LAMBDA krs :
        With({i \in 1..Len(krs) : krs[i].keyword = keyword}, LAMBDA hits :
            IF hits # {}
            THEN ROk(krs[CHOOSE i \in hits : \A j \in hits : i >= j].value)
            ELSE RErr("KeywordNotPresent")))

(* Header::value_of: the value of the first keyword record with the keyword. *)
value_of(self, keyword) ==
    With(keyword_records(self), LAMBDA krs :
        With({i \in 1..Len(krs) : krs[i].keyword = keyword}, LAMBDA hits :
            IF has_keyword_record(self, keyword) /\ hits # {}
            THEN ROk(krs[CHOOSE i \in hits : \A j \in hits : i <= j].value)
            ELSE RErr("KeywordNotPresent")))

(* Header::integer_value_of *)
integer_value_of(self, keyword) ==
    With(value_of(self, keyword), LAMBDA r :
        IF r.tag # "Ok" THEN r
        ELSE IF r.val.type = "Integer" THEN ROk(i64_of(r.val.v))
        ELSE RErr("NotAnInteger"))

(* Header::str_value_of *)
str_value_of(self, keyword) ==
    With(value_of(self, keyword), LAMBDA r :
        IF r.tag # "Ok" THEN r
        ELSE IF r.val.type = "CharacterString" THEN ROk(r.val.v)
        ELSE RErr("NotAString"))

(* Result::unwrap_or *)
unwrap_or(r, default) == IF r.tag = "Ok" THEN r.val ELSE default

(* The loop of naxis_product from axis n on: Panic when a NAXISn is not an *)
(* Integer keyword record.                                                  *)
RECURSIVE naxis_product_from(_, _, _, _)
naxis_product_from(self, n, limit, product) ==
    IF n >= limit THEN ROk(product)
    ELSE With(integer_value_of(self, KwIndexed("NAXIS", (n + 1) % 65536)), LAMBDA r :
             IF r.tag # "Ok" THEN [tag |-> "Panic", val |-> "NAXISn should be defined"]
             ELSE naxis_product_from(self, n + 1, limit, product * r.val))

(* A variant in which an axis that is not defined counts as 1. *)
RECURSIVE naxis_product_lenient_from(_, _, _, _)
naxis_product_lenient_from(self, n, limit, product) ==
    IF n >= limit THEN ROk(product)
    ELSE naxis_product_lenient_from(self, n + 1, limit,
             product * unwrap_or(integer_value_of(self, KwIndexed("NAXIS", (n + 1) % 65536)), 1))

naxis_product_lenient(self) ==
    With(unwrap_or(integer_value_of(self, KwFixed("NAXIS")), 0), LAMBDA limit :
        IF limit > 0 THEN naxis_product_lenient_from(self, 0, limit, 1) ELSE ROk(0))

(* Header::naxis_product *)
naxis_product(self) ==
    With(unwrap_or(integer_value_of(self, KwFixed("NAXIS")), 0), LAMBDA limit :
        IF limit > 0 THEN naxis_product_from(self, 0, limit, 1) ELSE ROk(0))

(* (n: i64) as usize: a negative n wraps around to a number near 2^64.     *)
as_usize(n) ==
    IF n >= 0 THEN ROk(n) ELSE [tag |-> "Wrapped", val |-> n]

(* Header::primary_data_array_size *)
primary_data_array_size(self) ==
    With(naxis_product(self), LAMBDA p :
        IF p.tag # "Ok" THEN p
        ELSE as_usize(i64_abs(unwrap_or(integer_value_of(self, KwFixed("BITPIX")), 0)) * p.val))

(* A variant that leaves the group count out. *)
extention_data_array_size_no_gcount(self) ==
    With(naxis_product(self), LAMBDA p :
        IF p.tag # "Ok" THEN p
        ELSE as_usize(i64_abs(unwrap_or(integer_value_of(self, KwFixed("BITPIX")), 0))
                      * (unwrap_or(integer_value_of(self, KwFixed("PCOUNT")), 0) + p.val)))

(* Header::extention_data_array_size *)
extention_data_array_size(self) ==
    With(naxis_product(self), LAMBDA p :
        IF p.tag # "Ok" THEN p
        ELSE as_usize(i64_abs(unwrap_or(integer_value_of(self, KwFixed("BITPIX")), 0))
                      * unwrap_or(integer_value_of(self, KwFixed("GCOUNT")), 1)
                      * (unwrap_or(integer_value_of(self, KwFixed("PCOUNT")), 0) + p.val)))

(* A variant that rounds down. *)
lmle_floor(n, k) == (n \div k) * k

(* For input n and k, finds the least multiple of k such that n <= q*k and *)
(* (q-1)*k < n                                                              *)
lmle(n, k) ==
    With(n \div k, LAMBDA q : IF n % k = 0 THEN q * k ELSE (q + 1) * k)

(* 2^e modulo k, for k small enough that 2 * k is computed exactly. *)
RECURSIVE Pow2Mod(_, _)
Pow2Mod(e, k) == IF e = 0 THEN 1 % k ELSE (2 * Pow2Mod(e - 1, k)) % k

(* lmle for a usize n near the top of its range, written 2^64 - m with     *)
(* m > 0: r is n % k, and (q + 1) * k = n - r + k.  When that exceeds       *)
(* 2^64 - 1 the multiplication overflows: tag "Overflow" stands for the    *)
(* panic of a build with overflow checks, and val for what a build without *)
(* them returns, the product modulo 2^64.  A result within the range is    *)
(* again written by its distance below 2^64 (top is TRUE).                  *)
lmle_near_max(m, k) ==
    With((Pow2Mod(64, k) + k - (m % k)) % k, LAMBDA r :
        IF r = 0 THEN [tag |-> "Ok", top |-> TRUE, val |-> m]
        ELSE IF k - r >= m THEN [tag |-> "Overflow", top |-> FALSE, val |-> k - r - m]
        ELSE [tag |-> "Ok", top |-> TRUE, val |-> m - (k - r)])

(* A variant that does not round the size up to whole blocks. *)
data_array_bits_unrounded(self) ==
    With(IF is_primary(self) THEN primary_data_array_size(self)
         ELSE extention_data_array_size(self), LAMBDA size :
        IF size.tag = "Ok" THEN ROk(size.val)
        ELSE IF size.tag = "Wrapped" THEN [tag |-> "Overflow", val |-> size.val]
        ELSE size)

(* Header::data_array_bits.  A size that wrapped around is within one block *)
(* of 2^64 and is no multiple of the block: rounding it up overflows usize. *)
data_array_bits(self) ==
    With(IF is_primary(self) THEN primary_data_array_size(self)
         ELSE extention_data_array_size(self), LAMBDA size :
        IF size.tag = "Ok" THEN ROk(lmle(size.val, FITS_BLOCK_SIZE * 8))
        ELSE IF size.tag = "Wrapped" THEN [tag |-> "Overflow", val |-> size.val]
        ELSE size)

(* A variant that starts the data at the start of the header. *)
next_header_from_start(self) ==
    With(data_array_bits(self), LAMBDA bits :
        IF bits.tag # "Ok" THEN bits ELSE ROk(self.start + bits.val \div 8))

(* Header::next_header *)
next_header(self) ==
    With(data_array_bits(self), LAMBDA bits :
        IF bits.tag # "Ok" THEN bits ELSE ROk(header_end_position(self) + bits.val \div 8))

(* Header::data_array_boundaries *)
data_array_boundaries(self) ==
    With(next_header(self), LAMBDA nh :
        IF nh.tag # "Ok" THEN nh ELSE ROk(<<header_end_position(self), nh.val>>))

(* HDU::new: slicing input[start..end] panics when end is past the input. *)
HDU_new(hdr, in) ==
    With(data_array_boundaries(hdr), LAMBDA b :
        IF b.tag # "Ok" THEN b
        ELSE IF b.val[1] > b.val[2] \/ b.val[2] > Len(in)
             THEN [tag |-> "Panic", val |-> "range end index out of range for slice"]
        ELSE ROk([header |-> hdr, data |-> SubSeq(in, b.val[1] + 1, b.val[2])]))

-----------------------------------------------------------------------------
(* Binary table forms (parser/type_forms.rs) and BinTable (types/extension.rs). *)

BinTypes == {"L", "X", "B", "I", "J", "K", "A", "E", "D", "C", "M", "P", "Q"}

(* BinType::from_str *)
BinType_from_str(s) == IF s \in BinTypes THEN ROk(s) ELSE RErr("InvalidBinType")

BinForm(repeat, bintype) == [repeat |-> repeat, bintype |-> bintype]

(* repeat_count: map_res(take_while1(is_digit_char), u16::from_str) *)
repeat_count(in) ==
    With(take_while1(Digits, in), LAMBDA d :
        IF ~IsOk(d) THEN PErr(in)
        ELSE With(u16_from_str(d.val), LAMBDA n :
                 IF n.ok THEN POk(d.rest, n.val) ELSE PErr(in)))

(* take(1usize) *)
take1(in) == IF Len(in) < 1 THEN PErr(in) ELSE POk(Drop(in, 1), Take(in, 1))

(* bin_tform *)
bin_tform(in) ==
    With(opt(repeat_count(in), in), LAMBDA a :
        With(take1(a.rest), LAMBDA b :
            IF ~IsOk(b) THEN PErr(in)
            ELSE With(take_while(AsciiText, b.rest), LAMBDA c :
                     With(BinType_from_str(b.val), LAMBDA t :
                         IF t.tag = "Ok"
                         THEN POk(c.rest, BinForm(IF a.val = None THEN 1 ELSE a.val[1], t.val))
                         ELSE PErr(in)))))

(* TableError *)
IncorrectExtension == [kind |-> "IncorrectExtension", keyword |-> KwUnrecognized(""), detail |-> <<>>]
PropertyNotDefined(keyword, e) == [kind |-> "PropertyNotDefined", keyword |-> keyword, detail |-> e]
UnexpectedValue(keyword, val) == [kind |-> "UnexpectedValue", keyword |-> keyword, detail |-> val]
InvalidFormString(keyword, s) == [kind |-> "InvalidFormString", keyword |-> keyword, detail |-> s]

get_str(hdr, keyword) ==
    With(str_value_of(hdr, keyword), LAMBDA r :
        IF r.tag = "Ok" THEN r ELSE RErr(PropertyNotDefined(keyword, r.val)))

get_uint(hdr, keyword) ==
    With(value_of(hdr, keyword), LAMBDA r :
        IF r.tag # "Ok" THEN RErr(PropertyNotDefined(keyword, r.val))
        ELSE IF r.val.type = "Integer"
             THEN IF i64_of(r.val.v) < 0 THEN RErr(UnexpectedValue(keyword, r.val))
                  ELSE ROk(i64_of(r.val.v))
        ELSE RErr(PropertyNotDefined(keyword, "NotAnInteger")))

get_value(hdr, keyword) ==
    With(value_of(hdr, keyword), LAMBDA r :
        IF r.tag = "Ok" THEN r ELSE RErr(PropertyNotDefined(keyword, r.val)))

(* value == Value::Integer(n) *)
is_integer(val, n) == val.type = "Integer" /\ i64_of(val.v) = n

(* The loop of BinTable::new over the fields from field_idx on: the forms  *)
(* and the names pushed, or the error of the first TFORMn that fails.      *)
RECURSIVE bintable_fields(_, _, _, _, _)
bintable_fields(hdr, field_idx, tfields, tform, ttype) ==
    IF field_idx >= tfields + 1 THEN ROk([tform |-> tform, ttype |-> ttype])
    ELSE With(get_str(hdr, KwIndexed("TFORM", field_idx)), LAMBDA tform_encoded :
        IF tform_encoded.tag # "Ok" THEN tform_encoded
        ELSE With(bin_tform(tform_encoded.val), LAMBDA f :
            IF ~IsOk(f)
            THEN RErr(InvalidFormString(KwIndexed("TFORM", field_idx), tform_encoded.val))
            ELSE With(get_str(hdr, KwIndexed("TTYPE", field_idx)), LAMBDA ttype_idx :
                bintable_fields(hdr, field_idx + 1, tfields, Append(tform, f.val),
                                IF ttype_idx.tag = "Ok" THEN Append(ttype, ttype_idx.val)
                                ELSE ttype))))

(* A variant that keeps the names it found when some are missing. *)
ttype_of_any(ttype, tfields) == Some(ttype)

(* let ttype = if ttype.len() == tfields as usize { Some(ttype) } else { None } *)
ttype_of(ttype, tfields) == IF Len(ttype) = tfields THEN Some(ttype) ELSE None

(* let theap = if let Ok(t) = get_uint(header, Keyword::THEAP) { .. } *)
theap_of(hdr, heap_size, rows, cols) ==
    With(get_uint(hdr, KwFixed("THEAP")), LAMBDA t :
        IF t.tag = "Ok" THEN t.val
        ELSE IF heap_size = 0 THEN 0
        ELSE rows * cols)

(* A variant without the check of XTENSION. *)
check_extension_any(hdr) ==
    With(get_str(hdr, KwFixed("XTENSION")), LAMBDA x : IF x.tag # "Ok" THEN x ELSE ROk(TRUE))

(* if get_str(header, Keyword::XTENSION)? != "BINTABLE" { return Err(..) } *)
check_extension(hdr) ==
    With(get_str(hdr, KwFixed("XTENSION")), LAMBDA x :
        IF x.tag # "Ok" THEN x
        ELSE IF x.val # "BINTABLE" THEN RErr(IncorrectExtension)
        ELSE ROk(TRUE))

(* let v = get_value(header, keyword)?; if v != Value::Integer(n) { return Err(..) } *)
check_value(hdr, keyword, n) ==
    With(get_value(hdr, keyword), LAMBDA r :
        IF r.tag # "Ok" THEN r
        ELSE IF ~is_integer(r.val, n) THEN RErr(UnexpectedValue(keyword, r.val))
        ELSE ROk(TRUE))

(* The first of the results that is an error, or the last of them. *)
first_err(rs) ==
    IF \E i \in 1..Len(rs) : rs[i].tag # "Ok"
    THEN rs[CHOOSE i \in 1..Len(rs) : rs[i].tag # "Ok" /\ \A j \in 1..(i - 1) : rs[j].tag = "Ok"]
    ELSE rs[Len(rs)]

(* BinTable::new: each step returns its error at once (the ? operator).    *)
BinTable_new(hdr) ==
    With(first_err(<<check_extension(hdr),
                     check_value(hdr, KwFixed("BITPIX"), 8),
                     check_value(hdr, KwFixed("NAXIS"), 2),
                     check_value(hdr, KwFixed("GCOUNT"), 1),
                     get_uint(hdr, KwIndexed("NAXIS", 1)),
                     get_uint(hdr, KwIndexed("NAXIS", 2)),
                     get_uint(hdr, KwFixed("PCOUNT")),
                     get_uint(hdr, KwFixed("TFIELDS"))>>), LAMBDA e :
        IF e.tag # "Ok" THEN e
        ELSE With([rows |-> get_uint(hdr, KwIndexed("NAXIS", 1)).val,
                   cols |-> get_uint(hdr, KwIndexed("NAXIS", 2)).val,
                   heap_size |-> get_uint(hdr, KwFixed("PCOUNT")).val,
                   tfields |-> get_uint(hdr, KwFixed("TFIELDS")).val % 65536], LAMBDA t :
            IF t.tfields = 65535
            THEN [tag |-> "Overflow", val |-> "tfields + 1"]
            ELSE With(bintable_fields(hdr, 1, t.tfields, <<>>, <<>>), LAMBDA fields :
                IF fields.tag # "Ok" THEN fields
                ELSE ROk([rows |-> t.rows,
                          cols |-> t.cols,
                          heap_size |-> t.heap_size,
                          tform |-> fields.val.tform,
                          ttype |-> ttype_of(fields.val.ttype, t.tfields),
                          theap |-> theap_of(hdr, t.heap_size, t.rows, t.cols)]))))

MaxRecords == 38       \* no call is made on an assembler holding this many records
MaxInteresting == 1    \* accepted records before END, and other than plain blanks after it
MaxBefore == 1         \* parse_header is called on an assembler holding at most this many records

LineKeyword == Pad("BITPIX  =                    8 / array data type")
LineCommentary == Pad("COMMENT = 'x' is no value here")
LineEnd == Pad("END")
LineBlank == Pad("")
LineBlankComment == Pad("           / padding that carries text")
LineGarbage == Pad("END     X")

Starts == {0, FITS_BLOCK_SIZE}

(* What parse_record is called with: one line, alone or followed by more   *)
(* bytes, or fewer bytes than a line.                                       *)
RecordInputs ==
    {LineKeyword, LineEnd, LineBlank, LineGarbage,
     LineKeyword \o "XTENSION", LineBlank \o LineEnd, "END", ""}

(* What parse_header is called with. *)
HeaderInputs ==
    {LineEnd \o Repeat(LineBlank, 35) \o "XTENSION",
     LineCommentary \o LineEnd \o Repeat(LineBlank, 34),
     LineEnd \o Repeat(LineBlank, 3),
     LineEnd \o LineBlankComment \o Repeat(LineBlank, 34),
     LineEnd \o LineBlank \o LineKeyword \o Repeat(LineBlank, 33),
     LineBlank \o LineGarbage \o LineEnd}

(* The index of the first EndRecord of recs, or Len(recs) + 1. *)
EndAt(recs) ==
    CHOOSE k \in 1..(Len(recs) + 1) :
        /\ k > Len(recs) \/ recs[k].type = "EndRecord"
        /\ \A j \in 1..(k - 1) : recs[j].type # "EndRecord"

(* The records the bound counts: every record accepted before END, and     *)
(* every record after it other than the plain blank line.                  *)
NInteresting(recs) ==
    With(EndAt(recs), LAMBDA e :
        Cardinality({k \in 1..Len(recs) :
                        \/ k < e
                        \/ k > e /\ ~(recs[k].type = "BlankRecord" /\ recs[k].comment = None)}))

WithinBounds(self) ==
    Len(self.records) <= MaxRecords /\ NInteresting(self.records) <= MaxInteresting

-----------------------------------------------------------------------------
(* The assembler under arbitrary calls.                                    *)

Self == [records |-> records, parse_more |-> parse_more, start |-> start, consumed |-> consumed]

NoChunks ==
    /\ stream = [bytes |-> "", n |-> 0, m |-> 0]
    /\ fed = 0
    /\ buf = ""
    /\ whole = NoOutcome

Init ==
    /\ \E s \in Starts :
          /\ records = HeaderParser_new(s).records
          /\ parse_more = HeaderParser_new(s).parse_more
          /\ start = HeaderParser_new(s).start
          /\ consumed = HeaderParser_new(s).consumed
    /\ op = "new"
    /\ input = ""
    /\ outcome = NoOutcome
    /\ header = None
    /\ completes = 0
    /\ NoChunks

SetSelf(self) ==
    /\ records' = self.records
    /\ parse_more' = self.parse_more
    /\ start' = self.start
    /\ consumed' = self.consumed

(* One call of parse_record; a call that panicked leaves the assembler as  *)
(* it was.                                                                  *)
ParseRecord ==
    /\ op # "into_header"
    /\ \E i \in RecordInputs : \E res \in {parse_record(Self, i)} :
          /\ WithinBounds(res.self)
          /\ SetSelf(res.self)
          /\ op' = "parse_record"
          /\ input' = i
          /\ outcome' = res.out
          /\ completes' = completes + (IF res.out.tag = "Complete" THEN 1 ELSE 0)
    /\ UNCHANGED <<header, stream, fed, buf, whole>>

(* One call of parse_header, which returns Ok(c) when a parse_record       *)
(* returned Complete(c).                                                    *)
ParseHeader ==
    /\ op # "into_header"
    /\ Len(records) <= MaxBefore
    /\ \E i \in HeaderInputs : \E res \in {parse_header(Self, i)} :
          /\ WithinBounds(res.self)
          /\ SetSelf(res.self)
          /\ op' = "parse_header"
          /\ input' = i
          /\ outcome' = res.out
          /\ completes' = completes + (IF res.out.tag = "Ok" THEN 1 ELSE 0)
    /\ UNCHANGED <<header, stream, fed, buf, whole>>

(* into_header takes the assembler by value: no call follows it. *)
IntoHeader ==
    /\ op # "into_header"
    /\ header' = Some(into_header(Self))
    /\ op' = "into_header"
    /\ UNCHANGED <<records, parse_more, start, consumed, input, outcome,
                   stream, fed, buf, completes, whole>>

Next == ParseRecord \/ ParseHeader \/ IntoHeader

Spec == Init /\ [][Next]_vars

-----------------------------------------------------------------------------
(* Claims about the assembler.                                             *)

C2_NonBlankAfterEndNotAccepted ==
    [][op' = "parse_record" /\ ~parse_more =>
          /\ IsOk(header_record(input')) /\ header_record(input').val.type # "BlankRecord" =>
                /\ outcome'.tag \notin {"Ok", "Complete"}
                /\ records' = records
                /\ consumed' = consumed
          /\ outcome'.tag \in {"Ok", "Complete"} =>
                /\ Len(records') = Len(records) + 1
                /\ records'[Len(records')].type = "BlankRecord"]_vars

C2_Witness ==
    /\ op = "parse_record"
    /\ ~parse_more
    /\ input = LineKeyword
    /\ outcome = OutcomePanic
    /\ Len(records) >= 2

(* C4: every parse_record call that succeeds appends exactly one record,   *)
(* adds exactly 80 to consumed and returns the input without its first 80  *)
(* bytes; consumed = 80 * (number of records) in every reachable state.    *)
C4_OneRecordEightyBytes ==
    /\ [](consumed = KEYWORD_LINE_LENGTH * Len(records))
    /\ [][op' = "parse_record" /\ outcome'.tag \in {"Ok", "Complete"} =>
             /\ Len(records') = Len(records) + 1
             /\ SubSeq(records', 1, Len(records)) = records
             /\ consumed' = consumed + KEYWORD_LINE_LENGTH
             /\ outcome'.rem = Drop(input', KEYWORD_LINE_LENGTH)]_vars

C4_Witness ==
    /\ op = "parse_record"
    /\ outcome.tag = "Ok"
    /\ input = LineKeyword \o "XTENSION"
    /\ outcome.rem = "XTENSION"
    /\ Len(records) = 1
    /\ consumed = KEYWORD_LINE_LENGTH

NEnd(recs) == Cardinality({k \in 1..Len(recs) : recs[k].type = "EndRecord"})

OnlyBlanksAfterEnd(recs) ==
    \A k \in 1..Len(recs) : k > EndAt(recs) => recs[k].type = "BlankRecord"

(* C5: the records of the assembler, and of every Header it produces,      *)
(* hold at most one EndRecord, and every record after it is a BlankRecord. *)
C5_OneEndThenBlanks ==
    /\ NEnd(records) <= 1
    /\ OnlyBlanksAfterEnd(records)
    /\ header # None => NEnd(header[1].records) <= 1 /\ OnlyBlanksAfterEnd(header[1].records)

C5_Witness ==
    /\ header # None
    /\ NEnd(header[1].records) = 1
    /\ EndAt(header[1].records) = 2
    /\ Len(header[1].records) > 3
    /\ completes = 0

(* C6: every Header obtained from into_header has length 80 * (number of   *)
(* records), a positive multiple of 2880, and the start given to new.      *)
C6_HeaderLengthWholeBlocks ==
    header # None =>
        /\ header[1].length = KEYWORD_LINE_LENGTH * Len(header[1].records)
        /\ header[1].length > 0
        /\ header[1].length % FITS_BLOCK_SIZE = 0
        /\ header[1].start = start

(* C7: Complete is terminal: parse_more never turns true again, Complete   *)
(* is returned only after END, and once a call has returned Complete no    *)
(* parse_record call appends a record, changes consumed, or returns Ok or  *)
(* Complete.                                                                *)
C7_CompleteIsTerminal ==
    /\ [](completes > 0 => ~parse_more)
    /\ [][(~parse_more => ~parse_more')
          /\ (completes > 0 /\ op' = "parse_record" =>
                 /\ records' = records
                 /\ consumed' = consumed
                 /\ outcome'.tag \notin {"Ok", "Complete"})]_vars

-----------------------------------------------------------------------------
(* One assembler fed a stream in chunks: bytes arrive in pieces, and the   *)
(* caller hands parse_record the bytes it holds and keeps the remainder.   *)

MaxBlocks == 2         \* the longest stream, in FITS blocks
ChunkUnit == 1000      \* the size of a chunk that is not the rest of the stream

(* The numbers of keyword lines before END, which lies in the first block. *)
KeywordCounts == {0, 1, 35}

(* N keyword lines, END and M blank lines that fill whole blocks. *)
StreamShapes ==
    {[n |-> n, m |-> 36 * b - n - 1] : n \in {k \in KeywordCounts : k < 36 * MaxBlocks},
                                        b \in 1..MaxBlocks}

StreamBytes(n, m) == Repeat(LineKeyword, n) \o LineEnd \o Repeat(LineBlank, m)

Streams ==
    {[bytes |-> StreamBytes(s.n, s.m), n |-> s.n, m |-> s.m] :
        s \in {t \in StreamShapes : t.m >= 0}}

InitChunk ==
    /\ \E s \in Streams :
          /\ stream = s
          /\ whole = parse_header(HeaderParser_new(0), s.bytes).out
    /\ records = HeaderParser_new(0).records
    /\ parse_more = HeaderParser_new(0).parse_more
    /\ start = HeaderParser_new(0).start
    /\ consumed = HeaderParser_new(0).consumed
    /\ op = "new"
    /\ input = ""
    /\ outcome = NoOutcome
    /\ header = None
    /\ completes = 0
    /\ fed = 0
    /\ buf = ""

(* More bytes of the stream arrive: a chunk, or all the rest. *)
Arrive ==
    /\ fed < Len(stream.bytes)
    /\ \E k \in {ChunkUnit, Len(stream.bytes) - fed} :
          \E upto \in {IF fed + k < Len(stream.bytes) THEN fed + k ELSE Len(stream.bytes)} :
              /\ fed' = upto
              /\ buf' = buf \o SubSeq(stream.bytes, fed + 1, upto)
    /\ op' = "arrive"
    /\ UNCHANGED <<records, parse_more, start, consumed, input, outcome, header,
                   stream, completes, whole>>

(* The caller calls parse_record on the bytes it holds and keeps what the  *)
(* call returns as remainder; after an Error it holds what it held.        *)
Feed ==
    /\ \E res \in {parse_record(Self, buf)} :
          /\ SetSelf(res.self)
          /\ op' = "parse_record"
          /\ input' = buf
          /\ outcome' = res.out
          /\ completes' = completes + (IF res.out.tag = "Complete" THEN 1 ELSE 0)
          /\ buf' = IF res.out.tag \in {"Ok", "Complete"} THEN res.out.rem ELSE buf
    /\ UNCHANGED <<header, stream, fed, whole>>

NextChunk == Arrive \/ Feed

SpecChunk == InitChunk /\ [][NextChunk]_vars

(* C3: for a stream of N keyword lines, END and M blank lines filling      *)
(* whole blocks, fed in any chunking, exactly one call returns Complete,   *)
(* and what is left of the stream at that call is the remainder of         *)
(* parse_header on the whole stream.                                        *)
C3_ChunkingYieldsOneComplete ==
    /\ completes <= 1
    /\ op = "parse_record" /\ outcome.tag = "Complete" =>
          /\ whole.tag = "Ok"
          /\ outcome.rem \o Drop(stream.bytes, fed) = whole.rem
    /\ fed = Len(stream.bytes) /\ buf = "" => completes = 1

-----------------------------------------------------------------------------
(* header_record as a function of its input: input is drawn from a set of  *)
(* lines, and outcome is the nom result [tag, rest, val] of the call.      *)

KeywordFields ==
    {"COMMENT ", "HISTORY ", "END     ", "        ", "BITPIX  ", "NAXIS1  ", "NAXISX  ",
     "MYKEY   "}

LineBodies ==
    {"", "= 5", "= 'text' / note", "/ note", "X", "= 5\t", " free text", "= 1E5",
     "   / text  ", "= (1, 2) / pair"}

LineTails == {"", "NEXT", LineEnd}

LineInputs ==
    {Pad(k \o b) \o t : k \in KeywordFields, b \in LineBodies, t \in LineTails}
    \cup {"", "END", Take(LineBlank, KEYWORD_LINE_LENGTH - 1), Take(LineEnd, 8)}

InitLine ==
    /\ input \in LineInputs
    /\ op = "new"
    /\ outcome = NoOutcome
    /\ header = None
    /\ records = <<>>
    /\ parse_more = TRUE
    /\ start = 0
    /\ consumed = 0
    /\ completes = 0
    /\ NoChunks

ApplyHeaderRecord ==
    /\ op = "new"
    /\ outcome' = header_record(input)
    /\ op' = "header_record"
    /\ UNCHANGED <<records, parse_more, start, consumed, input, header,
                   stream, fed, buf, completes, whole>>

NextLine == ApplyHeaderRecord

SpecLine == InitLine /\ [][NextLine]_vars

(* A shape matched a prefix of the line and left a byte that is no space. *)
LeavesNonSpace(r) == IsOk(r) /\ Span(r.rest, {" "}) < Len(r.rest)

(* The line of the input: its first 80 bytes, or all of a shorter input. *)
Line == IF Len(input) >= KEYWORD_LINE_LENGTH THEN Take(input, KEYWORD_LINE_LENGTH) ELSE input

(* C8: header_record succeeds only by consuming exactly the first 80 bytes *)
(* of its input, whatever follows them; and a shape that matches a prefix  *)
(* of the line but leaves a non-space byte of the 80 unconsumed fails.     *)
C8_WholeLineOrFailure ==
    op = "header_record" =>
        /\ IsOk(outcome) =>
              /\ Len(input) >= KEYWORD_LINE_LENGTH
              /\ outcome.rest = Drop(input, KEYWORD_LINE_LENGTH)
              /\ outcome.val = header_record(Line).val
        /\ LeavesNonSpace(commentary_shape(Line)) => ~IsOk(commentary_keyword_record(input))
        /\ LeavesNonSpace(value_shape(Line)) => ~IsOk(value_keyword_record(input))
        /\ LeavesNonSpace(end_shape(Line)) => ~IsOk(end_record(input))
        /\ LeavesNonSpace(blankfield_shape(Line)) => ~IsOk(blankfield_record(input))
        /\ (\A r \in {commentary_shape(Line), value_shape(Line), end_shape(Line),
                      blankfield_shape(Line)} : ~IsOk(r) \/ LeavesNonSpace(r))
              => ~IsOk(outcome)

C8_Witness ==
    /\ op = "header_record"
    /\ Len(input) > KEYWORD_LINE_LENGTH
    /\ LeavesNonSpace(value_shape(Line))
    /\ LeavesNonSpace(end_shape(Line))
    /\ ~IsOk(outcome)

AllAsciiText(s) == Span(s, AsciiText) = Len(s)

(* The first of the results that is Ok, or the last of them. *)
FirstOk(rs) ==
    IF \E k \in 1..Len(rs) : IsOk(rs[k])
    THEN rs[CHOOSE k \in 1..Len(rs) : IsOk(rs[k]) /\ \A j \in 1..(k - 1) : ~IsOk(rs[j])]
    ELSE rs[Len(rs)]

(* C9: header_record returns the first of commentary, value, end and blank *)
(* that matches the whole line, and fails when none does: a COMMENT or     *)
(* HISTORY line of printable bytes is a CommentaryRecord even when its     *)
(* text starts with '= ', END padded with 77 spaces is the EndRecord, 80   *)
(* spaces are BlankRecord(None), and 8 spaces followed by '/ text' are     *)
(* BlankRecord(Some(text)).                                                 *)
C9_FirstMatchingShape ==
    op = "header_record" /\ Len(input) >= KEYWORD_LINE_LENGTH =>
        /\ outcome.tag = FirstOk(<<commentary_keyword_record(input),
                                   value_keyword_record(input),
                                   end_record(input),
                                   blankfield_record(input)>>).tag
        /\ IsOk(outcome) =>
              outcome = FirstOk(<<commentary_keyword_record(input),
                                  value_keyword_record(input),
                                  end_record(input),
                                  blankfield_record(input)>>)
        /\ (StartsWith(Line, "COMMENT ") \/ StartsWith(Line, "HISTORY ")) /\ AllAsciiText(Line) =>
              /\ IsOk(outcome)
              /\ outcome.val =
                    CommentaryRecord(KwFixed(Take(Line, 7)), Some(trim_end(Drop(Line, 8))))
        /\ Line = Pad("END") => IsOk(outcome) /\ outcome.val = EndRecord
        /\ Line = Spaces(KEYWORD_LINE_LENGTH) => IsOk(outcome) /\ outcome.val = BlankRecord(None)
        /\ StartsWith(Line, "        /") /\ AllAsciiText(Line) =>
              /\ IsOk(outcome)
              /\ outcome.val = BlankRecord(Some(trim_end(Drop(Line, 9 + Span(Drop(Line, 9), {" "})))))
        /\ Line = Pad("        / note") => outcome.val = BlankRecord(Some("note"))

C9_Witness ==
    /\ op = "header_record"
    /\ StartsWith(input, "COMMENT = 5")
    /\ IsOk(value_keyword_record(input))
    /\ IsOk(outcome)
    /\ outcome.val.type = "CommentaryRecord"

-----------------------------------------------------------------------------
(* value as a function of its input: input is drawn from a set of value    *)
(* texts, and outcome is the nom result [tag, rest, val] of the call.      *)

SignTexts == {"", "+", "-"}

DigitTexts ==
    {"0", "1", "007", "9223372036854775807", "9223372036854775808", "99999999999999999999"}

AfterDigits == {"", " / note", ".", ".5", ".0E3", ".0D2", "E5", "X"}

PairParts == {"1", "-2", "1.0", ".5", "+3.25E2", "99999999999999999999"}

ValueInputs ==
    {s \o d \o a : s \in SignTexts, d \in DigitTexts, a \in AfterDigits}
    \cup {"(" \o x \o "," \o y \o ")" : x \in PairParts, y \in PairParts}
    \cup {"( 1 , 2 )", "(1.5, 2.5) / note", "'text'", "T", "F", "", ".", "-", "(1,2"}

InitValue ==
    /\ input \in ValueInputs
    /\ op = "new"
    /\ outcome = NoOutcome
    /\ header = None
    /\ records = <<>>
    /\ parse_more = TRUE
    /\ start = 0
    /\ consumed = 0
    /\ completes = 0
    /\ NoChunks

ApplyValue ==
    /\ op = "new"
    /\ outcome' = value(input)
    /\ op' = "value"
    /\ UNCHANGED <<records, parse_more, start, consumed, input, header,
                   stream, fed, buf, completes, whole>>

NextValue == ApplyValue

SpecValue == InitValue /\ [][NextValue]_vars

(* The length of the optionally signed digits s starts with, or 0. *)
SignedDigitsLen(s) ==
    With(Len(sign(s).val), LAMBDA k :
        With(Span(Drop(s, k), Digits), LAMBDA n : IF n = 0 THEN 0 ELSE k + n))

(* The ways to read s as '(' a ',' b ')': the pairs <<a, b>>. *)
PairSplits(s) ==
    IF StartsWith(s, "(") /\ Len(s) >= 5 /\ SubSeq(s, Len(s), Len(s)) = ")"
    THEN {<<SubSeq(s, 2, c - 1), SubSeq(s, c + 1, Len(s) - 1)>> :
             c \in {k \in 2..(Len(s) - 1) : SubSeq(s, k, k) = ","}}
    ELSE {}

IsSignedDigits(s) == Len(s) > 0 /\ SignedDigitsLen(s) = Len(s)

(* Optionally signed digits '.' digits, with digits on one side at least. *)
IsDecimalPoint(s) ==
    With(Len(sign(s).val), LAMBDA k :
        With(Span(Drop(s, k), Digits), LAMBDA n :
            /\ StartsWith(Drop(s, k + n), ".")
            /\ Span(Drop(s, k + n + 1), Digits) = Len(s) - k - n - 1
            /\ Len(s) - k - 1 > 0))

(* C10: optionally signed digits not followed by '.' parse as Integer and  *)
(* never Real; digits followed by '.' are no Integer and parse as Real;    *)
(* '(i,j)' of two integers is a ComplexInteger, and '(x,y)' of two         *)
(* decimal-point numbers is a Complex.                                      *)
C10_NumberDisambiguation ==
    op = "value" =>
        /\ SignedDigitsLen(input) > 0 /\ ~StartsWith(Drop(input, SignedDigitsLen(input)), ".") =>
              /\ IsOk(outcome)
              /\ outcome.val.type = "Integer"
              /\ outcome.rest = Drop(input, SignedDigitsLen(input))
        /\ SignedDigitsLen(input) > 0 /\ StartsWith(Drop(input, SignedDigitsLen(input)), ".") =>
              /\ IsOk(outcome)
              /\ outcome.val.type = "Real"
        /\ (\E p \in PairSplits(input) : IsSignedDigits(p[1]) /\ IsSignedDigits(p[2])) =>
              IsOk(outcome) /\ outcome.val.type = "ComplexInteger"
        /\ (\E p \in PairSplits(input) : IsDecimalPoint(p[1]) /\ IsDecimalPoint(p[2])) =>
              IsOk(outcome) /\ outcome.val.type = "Complex"

-----------------------------------------------------------------------------
(* Keyword::from_str as a function of its input.  The input is a keyword   *)
(* field written from a case: the name stream.bytes, followed by the       *)
(* decimal index stream.n when that is positive, followed by stream.m      *)
(* spaces.  outcome is the Result of the call.                              *)

MaxIndex == 999        \* the largest index written after a family prefix

DigitChars == <<"0", "1", "2", "3", "4", "5", "6", "7", "8", "9">>

(* The decimal text of a natural number, as u16's Display writes it. *)
RECURSIVE u16_to_string(_)
u16_to_string(n) ==
    IF n < 10 THEN DigitChars[n + 1] ELSE u16_to_string(n \div 10) \o DigitChars[(n % 10) + 1]

PrefixSet == {Prefixes[i] : i \in 1..Len(Prefixes)}

(* Names that are neither fixed names nor family members. *)
OtherNames ==
    {"FOO123", "SCALE_U", "", "NAXISX", "TFORM", "TFORMAB", "NAXIS-1", "NAXIS+1",
     "NAXIS0", "NAXIS007", "TTYPE1 X", "NAXIS 1", "TZERO1.5", "TDIM70000", "simple",
     "BITPIX8", "XNAXIS1", "TFORM\t"}

KeywordCases ==
    {[bytes |-> name, n |-> 0, m |-> m] :
        name \in FixedKeywords \cup PrefixSet \cup OtherNames, m \in {0, 1, 2}}
    \cup {[bytes |-> p, n |-> n, m |-> m] : p \in PrefixSet, n \in 1..MaxIndex, m \in {0, 1}}

(* The keyword field a case is written as. *)
KeywordField(c) ==
    c.bytes \o (IF c.n > 0 THEN u16_to_string(c.n) ELSE "") \o Spaces(c.m)

InitKeyword ==
    /\ stream \in KeywordCases
    /\ input = KeywordField(stream)
    /\ op = "new"
    /\ outcome = NoOutcome
    /\ header = None
    /\ records = <<>>
    /\ parse_more = TRUE
    /\ start = 0
    /\ consumed = 0
    /\ completes = 0
    /\ fed = 0
    /\ buf = ""
    /\ whole = NoOutcome

ApplyFromStr ==
    /\ op = "new"
    /\ outcome' = Keyword_from_str(input)
    /\ op' = "from_str"
    /\ UNCHANGED <<records, parse_more, start, consumed, input, header,
                   stream, fed, buf, completes, whole>>

NextKeyword == ApplyFromStr

SpecKeyword == InitKeyword /\ [][NextKeyword]_vars

(* The name and index of the case, without the padding. *)
CaseName == KeywordField([stream EXCEPT !.m = 0])

(* C11: from_str trims the trailing spaces and then maps every fixed name  *)
(* to its variant, every family prefix followed by n in 1..MaxIndex to the *)
(* family member n, NAXIS without digits to plain NAXIS, and a name that   *)
(* is no fixed name and starts with no family prefix to Unrecognized of    *)
(* the trimmed text.                                                        *)
C11_KeywordClassification ==
    op = "from_str" =>
        /\ CaseName \in FixedKeywords =>
              outcome = [tag |-> "Ok", val |-> KwFixed(CaseName)]
        /\ stream.bytes \in PrefixSet /\ stream.n >= 1 =>
              outcome = [tag |-> "Ok", val |-> KwIndexed(stream.bytes, stream.n)]
        /\ CaseName = "NAXIS" => outcome.val = KwFixed("NAXIS") /\ outcome.val.kind # "Indexed"
        /\ (/\ CaseName \notin FixedKeywords
            /\ \A p \in PrefixSet : ~StartsWith(CaseName, p)
            /\ Len(CaseName) <= 8) =>
              outcome = [tag |-> "Ok", val |-> KwUnrecognized(CaseName)]

C11_Witness ==
    /\ op = "from_str"
    /\ input = "TDISP999"
    /\ outcome.val = KwIndexed("TDISP", 999)

(* The shapes alt invokes for a line, in order: the next one is invoked    *)
(* only when the one before it ended in a recoverable Error.                *)
shapes_tried(in) ==
    With(commentary_keyword_record(in), LAMBDA c :
        IF c.tag # "Error" THEN <<"commentary">>
        ELSE With(value_keyword_record(in), LAMBDA v :
            IF v.tag # "Error" THEN <<"commentary", "value">>
            ELSE With(end_record(in), LAMBDA e :
                IF e.tag # "Error" THEN <<"commentary", "value", "end">>
                ELSE <<"commentary", "value", "end", "blank">>)))

(* The keyword field of the line starts with a family prefix, is no fixed  *)
(* name, and what follows the prefix is no u16.                             *)
MalformedIndexedField(field) ==
    /\ trim_end(field) \notin FixedKeywords
    /\ \E p \in PrefixSet :
          StartsWith(field, p) /\ ~u16_from_str(Drop(trim_end(field), Len(p))).ok

(* C12: a keyword field with a family prefix and a suffix that is no u16   *)
(* is the classification error NotANumber and never Unrecognized; a line   *)
(* with such a field makes header_record fail, the error being surfaced    *)
(* at once, with no record shape tried after the value shape.              *)
C12_NotANumberSurfaced ==
    op = "header_record" /\ Len(input) >= KEYWORD_LINE_LENGTH
        /\ MalformedIndexedField(Take(Line, 8)) =>
            /\ Keyword_from_str(Take(Line, 8)).tag = "Err"
            /\ ~IsOk(outcome)
            /\ shapes_tried(input) = <<"commentary", "value">>

(* The part of C12 that the code meets. *)
C12_NotANumberFails ==
    op = "header_record" /\ Len(input) >= KEYWORD_LINE_LENGTH
        /\ MalformedIndexedField(Take(Line, 8)) =>
            /\ Keyword_from_str(Take(Line, 8)).tag = "Err"
            /\ ~IsOk(outcome)

-----------------------------------------------------------------------------
(* The accessors and the data array size of a Header.  header holds the    *)
(* Header, input the argument of the call (a keyword, or the bytes of the  *)
(* file for HDU::new) and outcome its result.                               *)

MaxAxis == 5           \* the longest axis of a header

KR(keyword, val) == KeywordRecord_new(keyword, val, None)

IntegerRecord(name, n) == KR(KwFixed(name), VInteger(n))

(* Every header is one choice for each keyword, in this order, followed by *)
(* END; <<>> leaves the keyword out.                                        *)
SimpleChoices ==
    << <<>>, <<KR(KwFixed("SIMPLE"), VLogical(TRUE))>>, <<KR(KwFixed("SIMPLE"), VLogical(FALSE))>> >>

BitpixChoices ==
    << <<>>, <<IntegerRecord("BITPIX", "8")>>, <<IntegerRecord("BITPIX", "-32")>>,
       <<IntegerRecord("BITPIX", "128")>>,
       <<KR(KwFixed("BITPIX"), VCharacterString("8")), IntegerRecord("BITPIX", "8")>>,
       <<CommentaryRecord(KwFixed("BITPIX"), Some("16")), IntegerRecord("BITPIX", "16"),
         IntegerRecord("BITPIX", "8")>> >>

NaxisChoices ==
    << <<>>, <<IntegerRecord("NAXIS", "0")>>, <<IntegerRecord("NAXIS", "1")>>,
       <<IntegerRecord("NAXIS", "2")>>, <<IntegerRecord("NAXIS", "-1")>>,
       <<KR(KwFixed("NAXIS"), VLogical(TRUE)), IntegerRecord("NAXIS", "2")>> >>

AxisChoices ==
    << <<KR(KwIndexed("NAXIS", 1), VInteger("3"))>>,
       <<KR(KwIndexed("NAXIS", 1), VInteger("3")), KR(KwIndexed("NAXIS", 2), VInteger("5"))>>,
       <<BlankRecord(Some("NAXIS1 = 4")), KR(KwIndexed("NAXIS", 1), VInteger("0")),
         KR(KwIndexed("NAXIS", 2), VInteger(u16_to_string(MaxAxis)))>>,
       <<KR(KwIndexed("NAXIS", 1), VInteger("300")),
         KR(KwIndexed("NAXIS", 2), VInteger(u16_to_string(MaxAxis)))>>,
       <<KR(KwIndexed("NAXIS", 1), VInteger("3")), KR(KwIndexed("NAXIS", 2), VCharacterString("5")),
         KR(KwIndexed("NAXIS", 2), VInteger("5"))>> >>

GcountChoices == << <<>>, <<IntegerRecord("GCOUNT", "7")>>, <<IntegerRecord("GCOUNT", "1")>> >>

PcountChoices == << <<>>, <<IntegerRecord("PCOUNT", "11")>>, <<IntegerRecord("PCOUNT", "-20")>> >>

(* The header of one choice for each keyword. *)
HeaderOf(s, b, n, a, g, p) ==
    Header_new(SimpleChoices[s] \o BitpixChoices[b] \o NaxisChoices[n] \o AxisChoices[a]
                   \o GcountChoices[g] \o PcountChoices[p] \o <<EndRecord, BlankRecord(None)>>,
               IF s = 1 THEN 2 * FITS_BLOCK_SIZE ELSE 0, FITS_BLOCK_SIZE)

(* The keywords the accessors are asked for. *)
AskedKeywords ==
    {KwFixed("SIMPLE"), KwFixed("BITPIX"), KwFixed("NAXIS"), KwIndexed("NAXIS", 1),
     KwIndexed("NAXIS", 2), KwFixed("GCOUNT"), KwFixed("END"), KwUnrecognized("")}

FileBlock(c) == Repeat(Repeat(c, KEYWORD_LINE_LENGTH), 36)

(* The files an HDU is taken from: the data of the HDU are 'd' bytes. *)
Files(hdr) ==
    {Repeat(FileBlock("h"), header_end_position(hdr) \div FITS_BLOCK_SIZE)
        \o Repeat(FileBlock("d"), k) \o tail : k \in {0, 1, 2}, tail \in {"", "SIMPLE"}}

InitHeader ==
    /\ \E s \in 1..Len(SimpleChoices), b \in 1..Len(BitpixChoices), n \in 1..Len(NaxisChoices),
          a \in 1..Len(AxisChoices), g \in 1..Len(GcountChoices), p \in 1..Len(PcountChoices) :
          header = Some(HeaderOf(s, b, n, a, g, p))
    /\ input = ""
    /\ op = "new"
    /\ outcome = NoOutcome
    /\ records = <<>>
    /\ parse_more = TRUE
    /\ start = 0
    /\ consumed = 0
    /\ completes = 0
    /\ NoChunks

HeaderUnchanged ==
    UNCHANGED <<records, parse_more, start, consumed, header, stream, fed, buf,
                completes, whole>>

ValueOf ==
    /\ op = "new"
    /\ \E k \in AskedKeywords :
          /\ input' = k
          /\ outcome' = value_of(header[1], k)
    /\ op' = "value_of"
    /\ HeaderUnchanged

IntegerValueOf ==
    /\ op = "new"
    /\ \E k \in AskedKeywords :
          /\ input' = k
          /\ outcome' = integer_value_of(header[1], k)
    /\ op' = "integer_value_of"
    /\ HeaderUnchanged

StrValueOf ==
    /\ op = "new"
    /\ \E k \in AskedKeywords :
          /\ input' = k
          /\ outcome' = str_value_of(header[1], k)
    /\ op' = "str_value_of"
    /\ HeaderUnchanged

DataArrayBits ==
    /\ op = "new"
    /\ input' = ""
    /\ outcome' = data_array_bits(header[1])
    /\ op' = "data_array_bits"
    /\ HeaderUnchanged

NextHeader ==
    /\ op = "new"
    /\ input' = ""
    /\ outcome' = next_header(header[1])
    /\ op' = "next_header"
    /\ HeaderUnchanged

DataArrayBoundaries ==
    /\ op = "new"
    /\ input' = ""
    /\ outcome' = data_array_boundaries(header[1])
    /\ op' = "data_array_boundaries"
    /\ HeaderUnchanged

HDUNew ==
    /\ op = "new"
    /\ \E file \in Files(header[1]) :
          /\ input' = file
          /\ outcome' = HDU_new(header[1], file)
    /\ op' = "HDU::new"
    /\ HeaderUnchanged

NextHeaderModel ==
    \/ ValueOf
    \/ IntegerValueOf
    \/ StrValueOf
    \/ DataArrayBits
    \/ NextHeader
    \/ DataArrayBoundaries
    \/ HDUNew

SpecHeader == InitHeader /\ [][NextHeaderModel]_vars

(* The positions in the records of the KeywordRecords with keyword k. *)
PositionsOf(k) ==
    {i \in 1..Len(header[1].records) :
        header[1].records[i].type = "KeywordRecord" /\ header[1].records[i].keyword = k}

(* The value of the first of them. *)
FirstValueOf(k) ==
    header[1].records[CHOOSE i \in PositionsOf(k) : \A j \in PositionsOf(k) : i <= j].value

SameValue(a, b) == a.type = b.type /\ a.v = b.v

IsErr(r, e) == r.tag = "Err" /\ r.val = e

(* C13: value_of(k) is the value of the first KeywordRecord with keyword k, *)
(* whatever the other kinds of record hold, and KeywordNotPresent without  *)
(* one; integer_value_of and str_value_of return that first value when it  *)
(* is an Integer or a CharacterString, and NotAnInteger or NotAString when *)
(* it is not, whatever a later record for k holds.                          *)
C13_FirstKeywordRecordWins ==
    /\ op = "value_of" =>
          IF PositionsOf(input) = {} THEN IsErr(outcome, "KeywordNotPresent")
          ELSE outcome.tag = "Ok" /\ SameValue(outcome.val, FirstValueOf(input))
    /\ op = "integer_value_of" =>
          IF PositionsOf(input) = {} THEN IsErr(outcome, "KeywordNotPresent")
          ELSE IF FirstValueOf(input).type = "Integer"
               THEN outcome.tag = "Ok" /\ outcome.val = i64_of(FirstValueOf(input).v)
          ELSE IsErr(outcome, "NotAnInteger")
    /\ op = "str_value_of" =>
          IF PositionsOf(input) = {} THEN IsErr(outcome, "KeywordNotPresent")
          ELSE IF FirstValueOf(input).type = "CharacterString"
               THEN outcome.tag = "Ok" /\ outcome.val = FirstValueOf(input).v
          ELSE IsErr(outcome, "NotAString")

C13_Witness ==
    /\ op = "integer_value_of"
    /\ input = KwFixed("BITPIX")
    /\ IsErr(outcome, "NotAnInteger")
    /\ \E i \in PositionsOf(input) :
          header[1].records[i].value.type = "Integer" /\ header[1].records[i].value.v = "8"

(* The Integer the first KeywordRecord for k holds, or default without one; *)
(* IntegerOrAbsent says that k has no KeywordRecord or an Integer first.    *)
IntegerOrAbsent(k) == PositionsOf(k) = {} \/ FirstValueOf(k).type = "Integer"

IntegerOr(k, default) ==
    IF PositionsOf(k) = {} THEN default ELSE i64_of(FirstValueOf(k).v)

(* NAXIS1 .. NAXISn are non-negative Integers, and their product. *)
AxesDefined(n) ==
    \A i \in 1..n :
        /\ PositionsOf(KwIndexed("NAXIS", i)) # {}
        /\ FirstValueOf(KwIndexed("NAXIS", i)).type = "Integer"
        /\ i64_of(FirstValueOf(KwIndexed("NAXIS", i)).v) >= 0

RECURSIVE AxesProduct(_)
AxesProduct(n) ==
    IF n <= 0 THEN 1 ELSE AxesProduct(n - 1) * IntegerOr(KwIndexed("NAXIS", n), 1)

(* The product of the axes, 0 when NAXIS is absent or not positive. *)
NaxisProduct ==
    IF IntegerOr(KwFixed("NAXIS"), 0) > 0 THEN AxesProduct(IntegerOr(KwFixed("NAXIS"), 0)) ELSE 0

(* A header whose BITPIX, NAXIS, GCOUNT and PCOUNT are absent or Integers  *)
(* and whose axes are defined.                                              *)
SizeDefined ==
    /\ \A k \in {KwFixed("BITPIX"), KwFixed("NAXIS"), KwFixed("GCOUNT"), KwFixed("PCOUNT")} :
          IntegerOrAbsent(k)
    /\ AxesDefined(IntegerOr(KwFixed("NAXIS"), 0))

(* bits is size rounded up to a whole number of blocks. *)
RoundedUpToBlocks(bits, size) ==
    /\ bits % (FITS_BLOCK_SIZE * 8) = 0
    /\ bits >= size
    /\ bits - size < FITS_BLOCK_SIZE * 8

PrimarySize == i64_abs(IntegerOr(KwFixed("BITPIX"), 0)) * NaxisProduct

ExtensionSize ==
    i64_abs(IntegerOr(KwFixed("BITPIX"), 0)) * IntegerOr(KwFixed("GCOUNT"), 1)
        * (IntegerOr(KwFixed("PCOUNT"), 0) + NaxisProduct)

C16_NextHeaderOffset ==
    /\ op = "next_header" /\ data_array_bits(header[1]).tag = "Ok" =>
          /\ outcome.tag = "Ok"
          /\ outcome.val = header[1].start + header[1].length
                               + data_array_bits(header[1]).val \div 8
    /\ op = "data_array_boundaries" /\ data_array_bits(header[1]).tag = "Ok" =>
          /\ outcome.tag = "Ok"
          /\ outcome.val[1] = header[1].start + header[1].length
          /\ outcome.val[2] = next_header(header[1]).val
    /\ op = "HDU::new" /\ outcome.tag = "Ok" =>
          /\ Len(outcome.val.data) = data_array_bits(header[1]).val \div 8
          /\ outcome.val.data =
                SubSeq(input, header[1].start + header[1].length + 1,
                       header[1].start + header[1].length + Len(outcome.val.data))

C16_Witness ==
    /\ op = "HDU::new"
    /\ outcome.tag = "Ok"
    /\ header[1].start = 2 * FITS_BLOCK_SIZE
    /\ outcome.val.data = FileBlock("d") \o FileBlock("d")
    /\ Len(input) > 5 * FITS_BLOCK_SIZE


(* Some axis of NAXIS1 .. NAXISn has no KeywordRecord, or a first one that *)
(* holds no Integer.                                                        *)
AxisMissing(n) ==
    \E i \in 1..n :
        \/ PositionsOf(KwIndexed("NAXIS", i)) = {}
        \/ FirstValueOf(KwIndexed("NAXIS", i)).type # "Integer"

NaxisPositive ==
    /\ PositionsOf(KwFixed("NAXIS")) # {}
    /\ FirstValueOf(KwFixed("NAXIS")).type = "Integer"
    /\ i64_of(FirstValueOf(KwFixed("NAXIS")).v) > 0

(* C27: when NAXIS is a positive Integer and some NAXISn with n <= NAXIS   *)
(* is missing or holds no Integer, data_array_bits and next_header return  *)
(* no size: the call panics.                                                *)
C27_MissingAxisIsFatal ==
    op \in {"data_array_bits", "next_header"} /\ NaxisPositive
        /\ AxisMissing(IntegerOr(KwFixed("NAXIS"), 0)) =>
        outcome.tag = "Panic"

C27_Witness ==
    /\ op = "next_header"
    /\ NaxisPositive
    /\ IntegerOr(KwFixed("NAXIS"), 0) = 2
    /\ PositionsOf(KwIndexed("NAXIS", 1)) # {}
    /\ PositionsOf(KwIndexed("NAXIS", 2)) = {}
    /\ PositionsOf(KwFixed("BITPIX")) = {}
    /\ outcome.tag = "Panic"

(* The same for an axis whose first record holds a string. *)
C27_NotIntegerWitness ==
    /\ op = "data_array_bits"
    /\ NaxisPositive
    /\ IntegerOr(KwFixed("NAXIS"), 0) = 2
    /\ PositionsOf(KwIndexed("NAXIS", 2)) # {}
    /\ FirstValueOf(KwIndexed("NAXIS", 2)).type = "CharacterString"
    /\ outcome.tag = "Panic"
-----------------------------------------------------------------------------
(* BinTable::new as a function of the header, and bin_tform as a function  *)
(* of a TFORM string.  A behaviour starts from a header (header holds it,  *)
(* input is empty) or from a TFORM string (input holds it, header is       *)
(* None); outcome is the result of the call.                                *)

MaxRows == 4           \* the longest row of a table, in bytes

StringRecord(keyword, s) == KR(keyword, VCharacterString(s))

(* XTENSION, BITPIX, NAXIS, GCOUNT, NAXIS1, NAXIS2 and PCOUNT: tables that *)
(* pass the checks first, then headers with one or two keywords wrong.     *)
TableKeywords(x, bitpix, naxis, gcount, naxis1, naxis2, pcount) ==
    x \o bitpix \o naxis \o <<IntegerRecord("GCOUNT", gcount)>>
      \o <<KR(KwIndexed("NAXIS", 1), VInteger(naxis1))>> \o naxis2 \o pcount

BinTableRecord == <<StringRecord(KwFixed("XTENSION"), "BINTABLE")>>
Bitpix8 == <<IntegerRecord("BITPIX", "8")>>
Naxis2 == <<IntegerRecord("NAXIS", "2")>>
ThreeRows == <<KR(KwIndexed("NAXIS", 2), VInteger("3"))>>
NoHeap == <<IntegerRecord("PCOUNT", "0")>>
Heap == <<IntegerRecord("PCOUNT", "7")>>

(* The places in TableChoices of the tables that pass the checks. *)
PassingTables == {1, 2, 3}

TableChoices ==
    << TableKeywords(BinTableRecord, Bitpix8, Naxis2, "1", u16_to_string(MaxRows), ThreeRows, NoHeap),
       TableKeywords(BinTableRecord, Bitpix8, Naxis2, "1", u16_to_string(MaxRows), ThreeRows, Heap),
       TableKeywords(BinTableRecord, Bitpix8, Naxis2, "1", "0", ThreeRows, Heap),
       TableKeywords(<<StringRecord(KwFixed("XTENSION"), "IMAGE")>>, Bitpix8, Naxis2, "1", "4",
                     ThreeRows, NoHeap),
       TableKeywords(<<>>, Bitpix8, Naxis2, "1", "4", ThreeRows, NoHeap),
       TableKeywords(<<IntegerRecord("XTENSION", "1")>>, Bitpix8, Naxis2, "1", "4", ThreeRows, NoHeap),
       TableKeywords(BinTableRecord, <<IntegerRecord("BITPIX", "16")>>, Naxis2, "1", "4",
                     ThreeRows, NoHeap),
       TableKeywords(BinTableRecord, <<>>, Naxis2, "1", "4", ThreeRows, NoHeap),
       TableKeywords(BinTableRecord, <<StringRecord(KwFixed("BITPIX"), "8")>>, Naxis2, "1", "4",
                     ThreeRows, NoHeap),
       TableKeywords(BinTableRecord, Bitpix8, <<IntegerRecord("NAXIS", "3")>>, "1", "4",
                     ThreeRows, NoHeap),
       TableKeywords(BinTableRecord, Bitpix8, Naxis2, "2", "4", ThreeRows, NoHeap),
       TableKeywords(BinTableRecord, Bitpix8, Naxis2, "1", "-1", ThreeRows, NoHeap),
       TableKeywords(BinTableRecord, Bitpix8, Naxis2, "1", "4", <<>>, NoHeap),
       TableKeywords(BinTableRecord, Bitpix8, Naxis2, "1", "4", ThreeRows, <<>>),
       TableKeywords(BinTableRecord, Bitpix8, Naxis2, "1", "4", ThreeRows,
                     <<KR(KwFixed("PCOUNT"), VLogical(TRUE))>>),
       TableKeywords(<<StringRecord(KwFixed("XTENSION"), "TABLE")>>,
                     <<IntegerRecord("BITPIX", "16")>>, Naxis2, "2", "4", ThreeRows, NoHeap),
       TableKeywords(BinTableRecord, <<IntegerRecord("BITPIX", "-8")>>,
                     <<IntegerRecord("NAXIS", "0")>>, "1", "4", ThreeRows, NoHeap) >>

TfieldsChoices ==
    << <<>>, <<IntegerRecord("TFIELDS", "0")>>, <<IntegerRecord("TFIELDS", "1")>>,
       <<IntegerRecord("TFIELDS", "2")>>, <<IntegerRecord("TFIELDS", "-1")>> >>

Tform1Choices ==
    << <<>>, <<StringRecord(KwIndexed("TFORM", 1), "1E")>>,
       <<StringRecord(KwIndexed("TFORM", 1), "16A")>>,
       <<StringRecord(KwIndexed("TFORM", 1), "Z")>> >>

Tform2Choices ==
    << <<>>, <<StringRecord(KwIndexed("TFORM", 2), "0A")>>,
       <<StringRecord(KwIndexed("TFORM", 2), "A")>>,
       <<StringRecord(KwIndexed("TFORM", 2), "")>> >>

Ttype1Choices ==
    << <<>>, <<StringRecord(KwIndexed("TTYPE", 1), "TIME")>>,
       <<KR(KwIndexed("TTYPE", 1), VInteger("1")), StringRecord(KwIndexed("TTYPE", 1), "TIME")>> >>

Ttype2Choices == << <<>>, <<StringRecord(KwIndexed("TTYPE", 2), "FLUX")>> >>

TheapChoices ==
    << <<>>, <<IntegerRecord("THEAP", "20")>>, <<IntegerRecord("THEAP", "0")>>,
       <<IntegerRecord("THEAP", "-1")>>, <<StringRecord(KwFixed("THEAP"), "20")>> >>

(* The header of one choice for each group of keywords. *)
TableHeaderOf(t, n, f1, f2, t1, t2, h) ==
    Header_new(TableChoices[t] \o TfieldsChoices[n] \o Ttype2Choices[t2] \o Tform1Choices[f1]
                   \o Ttype1Choices[t1] \o Tform2Choices[f2] \o TheapChoices[h] \o <<EndRecord>>,
               FITS_BLOCK_SIZE, FITS_BLOCK_SIZE)

RepeatTexts == {"", "0", "1", "16", "12", "007", "65535", "65536"}

TformTexts ==
    {r \o l \o t : r \in RepeatTexts, l \in BinTypes \cup {"Z", "a", "", " ", "*"},
                   t \in {"", "(5)", " text"}}

InitBinTable ==
    /\ \/ /\ \E t \in 1..Len(TableChoices), n \in 1..Len(TfieldsChoices),
                f1 \in 1..Len(Tform1Choices), f2 \in 1..Len(Tform2Choices),
                t1 \in 1..Len(Ttype1Choices), t2 \in 1..Len(Ttype2Choices),
                h \in 1..Len(TheapChoices) :
                /\ t \in PassingTables \/ (n = 3 /\ f1 = 2 /\ f2 = 1 /\ t1 = 1 /\ t2 = 1)
                /\ header = Some(TableHeaderOf(t, n, f1, f2, t1, t2, h))
          /\ input = ""
       \/ /\ header = None
          /\ input \in TformTexts
    /\ op = "new"
    /\ outcome = NoOutcome
    /\ records = <<>>
    /\ parse_more = TRUE
    /\ start = 0
    /\ consumed = 0
    /\ completes = 0
    /\ NoChunks

BinTableNew ==
    /\ op = "new"
    /\ header # None
    /\ outcome' = BinTable_new(header[1])
    /\ op' = "BinTable::new"
    /\ UNCHANGED <<records, parse_more, start, consumed, input, header, stream, fed, buf,
                   completes, whole>>

BinTform ==
    /\ op = "new"
    /\ header = None
    /\ outcome' = bin_tform(input)
    /\ op' = "bin_tform"
    /\ UNCHANGED <<records, parse_more, start, consumed, input, header, stream, fed, buf,
                   completes, whole>>

NextBinTable == BinTableNew \/ BinTform

SpecBinTable == InitBinTable /\ [][NextBinTable]_vars

(* The first KeywordRecord for k holds the string s, or the Integer n. *)
HoldsString(k, s) ==
    PositionsOf(k) # {} /\ FirstValueOf(k).type = "CharacterString" /\ FirstValueOf(k).v = s

HoldsInteger(k, n) ==
    PositionsOf(k) # {} /\ FirstValueOf(k).type = "Integer" /\ i64_of(FirstValueOf(k).v) = n

HoldsNatural(k) ==
    PositionsOf(k) # {} /\ FirstValueOf(k).type = "Integer" /\ i64_of(FirstValueOf(k).v) >= 0

IsTableError(r, kind, k) == r.tag = "Err" /\ r.val.kind = kind /\ r.val.keyword = k

(* C17: BinTable::new answers IncorrectExtension when the XTENSION string  *)
(* is not BINTABLE, and UnexpectedValue with the keyword and its value     *)
(* when BITPIX is not Integer 8, NAXIS not Integer 2 or GCOUNT not Integer *)
(* 1 (the first of them that is wrong); it returns a BinTable only when    *)
(* the four checks pass and NAXIS1, NAXIS2, PCOUNT and TFIELDS are         *)
(* non-negative Integers.                                                    *)
C17_BinTableRejections ==
    op = "BinTable::new" =>
        /\ (/\ PositionsOf(KwFixed("XTENSION")) # {}
            /\ FirstValueOf(KwFixed("XTENSION")).type = "CharacterString"
            /\ FirstValueOf(KwFixed("XTENSION")).v # "BINTABLE") =>
              /\ outcome.tag = "Err"
              /\ outcome.val.kind = "IncorrectExtension"
        /\ \A i \in 1..3 :
              (/\ HoldsString(KwFixed("XTENSION"), "BINTABLE")
               /\ \A j \in 1..(i - 1) :
                     HoldsInteger(KwFixed(<<"BITPIX", "NAXIS", "GCOUNT">>[j]), <<8, 2, 1>>[j])
               /\ PositionsOf(KwFixed(<<"BITPIX", "NAXIS", "GCOUNT">>[i])) # {}
               /\ ~HoldsInteger(KwFixed(<<"BITPIX", "NAXIS", "GCOUNT">>[i]), <<8, 2, 1>>[i])) =>
                  /\ IsTableError(outcome, "UnexpectedValue", KwFixed(<<"BITPIX", "NAXIS", "GCOUNT">>[i]))
                  /\ SameValue(outcome.val.detail,
                               FirstValueOf(KwFixed(<<"BITPIX", "NAXIS", "GCOUNT">>[i])))
        /\ outcome.tag = "Ok" =>
              /\ HoldsString(KwFixed("XTENSION"), "BINTABLE")
              /\ HoldsInteger(KwFixed("BITPIX"), 8)
              /\ HoldsInteger(KwFixed("NAXIS"), 2)
              /\ HoldsInteger(KwFixed("GCOUNT"), 1)
              /\ \A k \in {KwIndexed("NAXIS", 1), KwIndexed("NAXIS", 2), KwFixed("PCOUNT"),
                           KwFixed("TFIELDS")} : HoldsNatural(k)

C17_Witness ==
    /\ op = "BinTable::new"
    /\ IsTableError(outcome, "UnexpectedValue", KwFixed("GCOUNT"))
    /\ outcome.val.detail.v = "2"

(* A TFORM string read by hand: its leading digits, whether they are a u16 *)
(* (or absent), and the byte after them.                                    *)
RepeatDigits(s) == Take(s, Span(s, Digits))

RepeatIsU16(s) ==
    \/ RepeatDigits(s) = ""
    \/ /\ Len(StripZeros(RepeatDigits(s))) <= 5
       /\ DecVal(StripZeros(RepeatDigits(s)), Len(StripZeros(RepeatDigits(s)))) <= 65535

TypeLetter(s) ==
    IF Len(s) > Len(RepeatDigits(s))
    THEN SubSeq(s, Len(RepeatDigits(s)) + 1, Len(RepeatDigits(s)) + 1)
    ELSE ""

RepeatOf(s) ==
    IF RepeatDigits(s) = "" THEN 1
    ELSE DecVal(StripZeros(RepeatDigits(s)), Len(StripZeros(RepeatDigits(s))))

ValidTform(s) == RepeatIsU16(s) /\ TypeLetter(s) \in BinTypes

(* The four checks pass and the four sizes are non-negative Integers. *)
TableKeywordsValid ==
    /\ HoldsString(KwFixed("XTENSION"), "BINTABLE")
    /\ HoldsInteger(KwFixed("BITPIX"), 8)
    /\ HoldsInteger(KwFixed("NAXIS"), 2)
    /\ HoldsInteger(KwFixed("GCOUNT"), 1)
    /\ \A k \in {KwIndexed("NAXIS", 1), KwIndexed("NAXIS", 2), KwFixed("PCOUNT"),
                 KwFixed("TFIELDS")} : HoldsNatural(k)

Tfields == i64_of(FirstValueOf(KwFixed("TFIELDS")).v)

IsString(k) == PositionsOf(k) # {} /\ FirstValueOf(k).type = "CharacterString"

(* C18: bin_tform reads an optional repeat count (1 when absent, 0         *)
(* allowed), one type letter of LXBIJKAEDCMPQ and optional text after it:  *)
(* 0A is repeat 0 of A, 16A repeat 16 of A, 1E repeat 1 of E and A repeat  *)
(* 1 of A; another letter or an empty string fails, and BinTable::new then *)
(* answers InvalidFormString for that TFORMn, whichever field of           *)
(* 1..TFIELDS it is.                                                         *)
C18_TformAnyRepeat ==
    /\ op = "bin_tform" =>
          /\ IsOk(outcome) <=> TypeLetter(input) \in BinTypes
          /\ IsOk(outcome) => outcome.val = BinForm(RepeatOf(input), TypeLetter(input))
          /\ input = "0A" => IsOk(outcome) /\ outcome.val = BinForm(0, "A")
          /\ input = "16A" => IsOk(outcome) /\ outcome.val = BinForm(16, "A")
          /\ input = "1E" => IsOk(outcome) /\ outcome.val = BinForm(1, "E")
          /\ input = "A" => IsOk(outcome) /\ outcome.val = BinForm(1, "A")
          /\ input = "" => ~IsOk(outcome)
    /\ op = "BinTable::new" /\ TableKeywordsValid =>
          \A i \in 1..Tfields :
              (/\ \A j \in 1..(i - 1) :
                     IsString(KwIndexed("TFORM", j)) /\ ValidTform(FirstValueOf(KwIndexed("TFORM", j)).v)
               /\ IsString(KwIndexed("TFORM", i))
               /\ ~ValidTform(FirstValueOf(KwIndexed("TFORM", i)).v)) =>
                  /\ IsTableError(outcome, "InvalidFormString", KwIndexed("TFORM", i))
                  /\ outcome.val.detail = FirstValueOf(KwIndexed("TFORM", i)).v

(* The part of C18 that the code meets: repeat counts that are a u16. *)
C18_TformParsing ==
    /\ op = "bin_tform" /\ RepeatIsU16(input) =>
          /\ IsOk(outcome) <=> TypeLetter(input) \in BinTypes
          /\ IsOk(outcome) => outcome.val = BinForm(RepeatOf(input), TypeLetter(input))
    /\ op = "bin_tform" =>
          /\ input = "0A" => IsOk(outcome) /\ outcome.val = BinForm(0, "A")
          /\ input = "16A" => IsOk(outcome) /\ outcome.val = BinForm(16, "A")
          /\ input = "1E" => IsOk(outcome) /\ outcome.val = BinForm(1, "E")
          /\ input = "A" => IsOk(outcome) /\ outcome.val = BinForm(1, "A")
          /\ input = "" => ~IsOk(outcome)
    /\ op = "BinTable::new" /\ TableKeywordsValid =>
          \A i \in 1..Tfields :
              (/\ \A j \in 1..(i - 1) :
                     IsString(KwIndexed("TFORM", j)) /\ ValidTform(FirstValueOf(KwIndexed("TFORM", j)).v)
               /\ IsString(KwIndexed("TFORM", i))
               /\ ~ValidTform(FirstValueOf(KwIndexed("TFORM", i)).v)) =>
                  /\ IsTableError(outcome, "InvalidFormString", KwIndexed("TFORM", i))
                  /\ outcome.val.detail = FirstValueOf(KwIndexed("TFORM", i)).v

(* C19: the TTYPE list of the BinTable is Some exactly when every field of *)
(* 1..TFIELDS has a TTYPEn holding a string, and then holds the names in   *)
(* the order of the fields; a TTYPEn that is missing or no string gives    *)
(* None and never an error.                                                  *)
C19_TtypeAllOrNothing ==
    op = "BinTable::new" /\ TableKeywordsValid =>
        /\ outcome.tag = "Ok" =>
              /\ outcome.val.ttype # None <=> \A i \in 1..Tfields : IsString(KwIndexed("TTYPE", i))
              /\ outcome.val.ttype # None =>
                    /\ Len(outcome.val.ttype[1]) = Tfields
                    /\ \A i \in 1..Tfields :
                          outcome.val.ttype[1][i] = FirstValueOf(KwIndexed("TTYPE", i)).v
        /\ (\A i \in 1..Tfields :
               IsString(KwIndexed("TFORM", i)) /\ ValidTform(FirstValueOf(KwIndexed("TFORM", i)).v)) =>
              outcome.tag = "Ok"

C19_Witness ==
    /\ op = "BinTable::new"
    /\ outcome.tag = "Ok"
    /\ Len(outcome.val.tform) = 2
    /\ outcome.val.ttype = None
    /\ IsString(KwIndexed("TTYPE", 2))
    /\ PositionsOf(KwIndexed("TTYPE", 1)) # {}

(* C20: theap is the value of the THEAP keyword whenever the header has    *)
(* one; without one it is 0 when PCOUNT is 0 and NAXIS1 * NAXIS2 when it   *)
(* is not.                                                                   *)
C20_TheapFromKeyword ==
    op = "BinTable::new" /\ outcome.tag = "Ok" =>
        IF PositionsOf(KwFixed("THEAP")) # {}
        THEN /\ FirstValueOf(KwFixed("THEAP")).type = "Integer"
             /\ outcome.val.theap = i64_of(FirstValueOf(KwFixed("THEAP")).v)
        ELSE outcome.val.theap =
                IF IntegerOr(KwFixed("PCOUNT"), 0) = 0 THEN 0
                ELSE IntegerOr(KwIndexed("NAXIS", 1), 0) * IntegerOr(KwIndexed("NAXIS", 2), 0)

(* The part of C20 that the code meets: a THEAP that is a non-negative     *)
(* Integer, or no THEAP.                                                     *)
C20_TheapFromNaturalKeyword ==
    op = "BinTable::new" /\ outcome.tag = "Ok"
        /\ (PositionsOf(KwFixed("THEAP")) # {} => HoldsNatural(KwFixed("THEAP"))) =>
        outcome.val.theap =
            IF PositionsOf(KwFixed("THEAP")) # {} THEN i64_of(FirstValueOf(KwFixed("THEAP")).v)
            ELSE IF IntegerOr(KwFixed("PCOUNT"), 0) = 0 THEN 0
            ELSE IntegerOr(KwIndexed("NAXIS", 1), 0) * IntegerOr(KwIndexed("NAXIS", 2), 0)


-----------------------------------------------------------------------------
(* Rendering (the Display and Debug impls of types/header.rs and           *)
(* types/keyword.rs).                                                       *)

(* Debug for Keyword (derived): the variant's name, and for a family       *)
(* member its index in parentheses, as in NAXISn(1).                        *)
Keyword_debug(k) ==
    IF k.kind = "Indexed" THEN k.name \o "n(" \o u16_to_string(k.n) \o ")"
    ELSE k.name

(* Display for Keyword: the text of an Unrecognized keyword, else Debug. *)
Keyword_fmt(k) == IF k.kind = "Unrecognized" THEN k.name ELSE Keyword_debug(k)

(* Debug for str: the text in double quotes, '"' and '\' escaped. *)
RECURSIVE escape_debug(_)
escape_debug(s) ==
    IF Len(s) = 0 THEN ""
    ELSE (IF Take(s, 1) \in {"\"", "\\"} THEN "\\" ELSE "") \o Take(s, 1) \o escape_debug(Drop(s, 1))

str_debug(s) == "\"" \o escape_debug(s) \o "\""

(* Debug for f64, for a value digits * 10^exp of at most 15 digits (the    *)
(* shortest text that reads back as the same double is then digits         *)
(* itself): plain decimal notation with at least one fractional digit for  *)
(* 1e-4 <= |x| < 1e16 and for 0, else the exponent notation.  point is the *)
(* number of digits in front of the decimal point.                          *)
f64_debug(x) ==
    With(Len(x.digits) + x.exp, LAMBDA point :
        (IF x.neg THEN "-" ELSE "") \o
        (IF x.digits = "0" THEN "0.0"
         ELSE IF point > 16 \/ point < -3
              THEN Take(x.digits, 1)
                   \o (IF Len(x.digits) > 1 THEN "." \o Drop(x.digits, 1) ELSE "")
                   \o "e" \o (IF point < 1 THEN "-" \o u16_to_string(1 - point)
                              ELSE u16_to_string(point - 1))
         ELSE IF x.exp >= 0 THEN x.digits \o Repeat("0", x.exp) \o ".0"
         ELSE IF point > 0 THEN Take(x.digits, point) \o "." \o Drop(x.digits, point)
         ELSE "0." \o Repeat("0", 0 - point) \o x.digits))

(* Debug for Value (derived): the variant's name and its field. *)
Value_debug(v) ==
    IF v.type = "CharacterString" THEN "CharacterString(" \o str_debug(v.v) \o ")"
    ELSE IF v.type = "Logical" THEN "Logical(" \o (IF v.v THEN "true" ELSE "false") \o ")"
    ELSE IF v.type = "Integer" THEN "Integer(" \o v.v \o ")"
    ELSE IF v.type = "ComplexInteger"
         THEN "ComplexInteger((" \o v.v[1] \o ", " \o v.v[2] \o "))"
    ELSE IF v.type = "Real" THEN "Real(" \o f64_debug(v.v) \o ")"
    ELSE IF v.type = "Complex"
         THEN "Complex((" \o f64_debug(v.v[1]) \o ", " \o f64_debug(v.v[2]) \o "))"
    ELSE "Undefined"

(* Display for KeywordRecord: "{}= {:?}/{}" of keyword, value, comment. *)
KeywordRecord_fmt(r) ==
    Keyword_fmt(r.keyword) \o "= " \o Value_debug(r.value) \o "/"
        \o (IF r.comment = None THEN "" ELSE r.comment[1])

-----------------------------------------------------------------------------
(* Decoding a value line, rendering the record, and decoding the rendered  *)
(* text: input is the line, outcome its decoding, buf the rendered text,   *)
(* stream.bytes the text handed to the second decoding (the rendered text  *)
(* as it is, or padded with spaces to a line), and whole its result.       *)

RenderKeywords == {"BITPIX  ", "NAXIS1  ", "TFORM12 ", "MYKEY   ", "CHECKSUM", "        "}

RenderValues ==
    {"", "5", "-12", "                   8", "T", "F", "'text'", "'  lead  '",
     "'say \"a\\b\"'", "1.5", "-.25", "1.0E3", "2.5E-7", "100.", "(1, 2)", "(1.5, -2.5)"}

RenderComments == {"", " / note", "/"}

RenderLines ==
    {Pad(k \o "= " \o v \o c) : k \in RenderKeywords, v \in RenderValues, c \in RenderComments}

InitRender ==
    /\ input \in RenderLines
    /\ op = "new"
    /\ outcome = NoOutcome
    /\ header = None
    /\ records = <<>>
    /\ parse_more = TRUE
    /\ start = 0
    /\ consumed = 0
    /\ completes = 0
    /\ NoChunks

Decode ==
    /\ op = "new"
    /\ outcome' = header_record(input)
    /\ op' = "header_record"
    /\ UNCHANGED <<records, parse_more, start, consumed, input, header,
                   stream, fed, buf, completes, whole>>

Render ==
    /\ op = "header_record"
    /\ IsOk(outcome)
    /\ outcome.val.type = "KeywordRecord"
    /\ buf' = KeywordRecord_fmt(outcome.val)
    /\ op' = "fmt"
    /\ UNCHANGED <<records, parse_more, start, consumed, input, outcome, header,
                   stream, fed, completes, whole>>

DecodeAgain ==
    /\ op = "fmt"
    /\ \E text \in {buf, Pad(buf)} :
          /\ stream' = [bytes |-> text, n |-> 0, m |-> 0]
          /\ whole' = header_record(text)
    /\ op' = "header_record_again"
    /\ UNCHANGED <<records, parse_more, start, consumed, input, outcome, header,
                   fed, buf, completes>>

NextRender == Decode \/ Render \/ DecodeAgain

SpecRender == InitRender /\ [][NextRender]_vars

(* C21: the rendering of the KeywordRecord a value line decoded to decodes *)
(* again, to a KeywordRecord with the same keyword and the same value.     *)
C21_RenderRoundTrip ==
    op = "header_record_again" =>
        /\ IsOk(whole)
        /\ whole.val.type = "KeywordRecord"
        /\ whole.val.keyword = outcome.val.keyword
        /\ SameValue(whole.val.value, outcome.val.value)

(* No rendering decodes at all: the keyword is not padded to the 8-byte    *)
(* field, and the value is written in Debug notation, which the value      *)
(* grammar does not read.                                                   *)
C21_RenderingNeverDecodes ==
    op = "header_record_again" => ~IsOk(whole)

(* The renderings of three lines. *)
C21_Renderings ==
    /\ op = "fmt" /\ input = Pad("BITPIX  = 5 / note") => buf = "BITPIX= Integer(5)/note"
    /\ op = "fmt" /\ input = Pad("NAXIS1  = 1.0E3") => buf = "NAXISn(1)= Real(1000.0)/"
    /\ op = "fmt" /\ input = Pad("MYKEY   = '  lead  '/") =>
          buf = "MYKEY= CharacterString(\"  lead\")/"
    /\ op = "fmt" /\ input = Pad("        = (1.5, -2.5)") => buf = "= Complex((1.5, -2.5))/"
    /\ op = "fmt" /\ input = Pad("CHECKSUM= 2.5E-7") => buf = "CHECKSUM= Real(2.5e-7)/"

-----------------------------------------------------------------------------
(* Claims about the Real and Complex syntax.                               *)

(* Digits, digits '.' and optional digits, or '.' and digits. *)
IsMantissa(t) ==
    With(Span(t, Digits), LAMBDA n :
        IF n = Len(t) THEN n > 0
        ELSE /\ SubSeq(t, n + 1, n + 1) = "."
             /\ Span(Drop(t, n + 1), Digits) = Len(t) - n - 1
             /\ Len(t) > 1)

(* 'E' or 'D', then optionally signed digits. *)
IsExponentText(e) == Len(e) >= 2 /\ Take(e, 1) \in {"E", "D"} /\ IsSignedDigits(Drop(e, 1))

(* The Real syntax: an optional sign, a mantissa, an optional exponent. *)
IsRealText(s) ==
    With(Drop(s, Len(sign(s).val)), LAMBDA body :
        \E m \in 1..Len(body) :
            /\ IsMantissa(Take(body, m))
            /\ m = Len(body) \/ IsExponentText(Drop(body, m)))

HasByte(s, c) == \E k \in 1..Len(s) : SubSeq(s, k, k) = c

(* C22: every text of the Real syntax that is no plain integer is accepted *)
(* by value as a Real that consumes the whole text.                         *)
C22_RealSyntaxAccepted ==
    op = "value" /\ IsRealText(input) /\ ~IsSignedDigits(input) =>
        /\ IsOk(outcome)
        /\ outcome.val.type = "Real"
        /\ outcome.rest = ""

(* With a decimal point and no 'D' the texts of the Real syntax are        *)
(* accepted as Reals that consume the whole text.                           *)
C22_RealWithPointAccepted ==
    op = "value" /\ IsRealText(input) /\ HasByte(input, ".") /\ ~HasByte(input, "D") =>
        /\ IsOk(outcome)
        /\ outcome.val.type = "Real"
        /\ outcome.rest = ""

(* Digits and an exponent without a decimal point are read as an Integer   *)
(* that leaves the exponent, and a 'D' exponent is no value at all.         *)
C22_ExponentQuirks ==
    op = "value" =>
        /\ input = "1E5" => IsOk(outcome) /\ outcome.val = VInteger("1") /\ outcome.rest = "E5"
        /\ input = "1.0D2" => ~IsOk(outcome)
        /\ input = "1.0E3" => IsOk(outcome) /\ outcome.val.type = "Real" /\ outcome.rest = ""

(* A value line that carries such a text fails. *)
C22_ExponentLineFails ==
    op = "header_record" /\ StartsWith(Line, "BITPIX  = 1E5 ") => ~IsOk(outcome)

(* s without the whitespace around it. *)
Trimmed(s) ==
    With(Drop(s, Span(s, MultiSpace)), LAMBDA t : Take(t, TrimLen(t, MultiSpace)))

(* The components of the pair that value consumed, whitespace aside. *)
ConsumedPairs ==
    {<<Trimmed(p[1]), Trimmed(p[2])>> : p \in PairSplits(recognize(input, outcome.rest))}

IsRealNotInteger(s) == IsRealText(s) /\ ~IsSignedDigits(s)

(* The ways to read the input as a pair of an integer and a real. *)
MixedPairs ==
    {p \in {<<Trimmed(q[1]), Trimmed(q[2])>> : q \in PairSplits(input)} :
        \/ IsSignedDigits(p[1]) /\ IsRealNotInteger(p[2])
        \/ IsRealNotInteger(p[1]) /\ IsSignedDigits(p[2])}

(* C23: '(a,b)' is a ComplexInteger only if a and b are both integers and  *)
(* a Complex only if both are reals, and a pair that mixes an integer with *)
(* a real is not accepted as a value.                                       *)
C23_ComplexSameKind ==
    op = "value" =>
        /\ IsOk(outcome) /\ outcome.val.type = "ComplexInteger" =>
              \E p \in ConsumedPairs : IsSignedDigits(p[1]) /\ IsSignedDigits(p[2])
        /\ IsOk(outcome) /\ outcome.val.type = "Complex" =>
              \E p \in ConsumedPairs : IsRealNotInteger(p[1]) /\ IsRealNotInteger(p[2])
        /\ MixedPairs # {} => ~IsOk(outcome)

(* A ComplexInteger has two integer components, and a pair that mixes an   *)
(* integer with a real is accepted, as a Complex.                           *)
C23_MixedPairIsComplex ==
    op = "value" =>
        /\ IsOk(outcome) /\ outcome.val.type = "ComplexInteger" =>
              \E p \in ConsumedPairs : IsSignedDigits(p[1]) /\ IsSignedDigits(p[2])
        /\ MixedPairs # {} => IsOk(outcome) /\ outcome.val.type = "Complex"
        /\ input = "(1,1.0)" =>
              outcome.val.v = <<Decimal(FALSE, "1", "", 0), Decimal(FALSE, "1", "0", 0)>>

-----------------------------------------------------------------------------
(* Character strings: input is a value text that starts with a quote,      *)
(* outcome the result of value on it, and whole the result of              *)
(* header_record on the line 'OBJECT  = ' followed by the text.            *)

StringBodies ==
    {"", "text", "  lead", "trail  ", "  both  ", "   ", "a b", "tab\there", "O",
     "~!\"#$", "(1,2)", "T", "5", "/ x", "EPIC 200164267"}

StringTails == {"", " / note", "'HARA'", "X", "   ", "''"}

StringInputs ==
    {"'" \o b \o "'" \o t : b \in StringBodies, t \in StringTails}
    \cup {"'" \o b : b \in StringBodies}

StringLine(text) == Pad("OBJECT  = " \o text)

InitString ==
    /\ input \in StringInputs
    /\ op = "new"
    /\ outcome = NoOutcome
    /\ header = None
    /\ records = <<>>
    /\ parse_more = TRUE
    /\ start = 0
    /\ consumed = 0
    /\ completes = 0
    /\ NoChunks

ApplyStringValue ==
    /\ op = "new"
    /\ outcome' = value(input)
    /\ op' = "value"
    /\ UNCHANGED <<records, parse_more, start, consumed, input, header,
                   stream, fed, buf, completes, whole>>

ApplyStringLine ==
    /\ op = "value"
    /\ whole' = header_record(StringLine(input))
    /\ op' = "line"
    /\ UNCHANGED <<records, parse_more, start, consumed, input, outcome, header,
                   stream, fed, buf, completes>>

NextString == ApplyStringValue \/ ApplyStringLine

SpecString == InitString /\ [][NextString]_vars

(* The position in s of its first quote, or Len(s) + 1. *)
NextQuote(s) ==
    CHOOSE k \in 1..(Len(s) + 1) :
        /\ k > Len(s) \/ SubSeq(s, k, k) = "'"
        /\ \A j \in 1..(k - 1) : SubSeq(s, j, j) # "'"

(* The bytes of the input between its first quote and the next one. *)
Quoted == Take(Drop(input, 1), NextQuote(Drop(input, 1)) - 1)

Closed == NextQuote(Drop(input, 1)) <= Len(input) - 1

AfterClosingQuote == Drop(input, Len(Quoted) + 2)

(* C24: a character string is the text between a quote and the next quote, *)
(* all of printable ASCII; its value keeps the leading spaces and drops    *)
(* the trailing ones, '' is the empty string, and a text that is not       *)
(* closed or holds another byte is no value; no value line decodes to a    *)
(* string that holds a quote, and a line with a doubled quote inside the   *)
(* string ('O''HARA') decodes to no record.                                 *)
C24_CharacterString ==
    /\ op \in {"value", "line"} =>
          IF Closed /\ AllAsciiText(Quoted)
          THEN /\ IsOk(outcome)
               /\ outcome.val = VCharacterString(Take(Quoted, TrimLen(Quoted, {" "})))
               /\ outcome.rest = AfterClosingQuote
               /\ Quoted = "" => outcome.val.v = ""
          ELSE ~IsOk(outcome)
    /\ op = "line" =>
          /\ IsOk(whole) /\ whole.val.value.type = "CharacterString" =>
                ~HasByte(whole.val.value.v, "'")
          /\ Closed /\ StartsWith(AfterClosingQuote, "'") => ~IsOk(whole)

C24_Witness ==
    /\ op = "line"
    /\ input = "'O''HARA'"
    /\ outcome.val = VCharacterString("O")
    /\ outcome.rest = "'HARA'"
    /\ ~IsOk(whole)

(* Leading spaces are kept and trailing spaces dropped, on the line too. *)
C24_SpacesWitness ==
    /\ op = "line"
    /\ input = "'  both  ' / note"
    /\ IsOk(whole)
    /\ whole.val.value = VCharacterString("  both")
    /\ whole.val.comment = Some("note")

-----------------------------------------------------------------------------
(* Value lines with and without a value: stream holds the keyword field,   *)
(* the value field and the comment the line is made of, input is the line, *)
(* and outcome the result of header_record on it.                          *)

UndefinedKeywords ==
    {"BITPIX  ", "MYKEY   ", "NAXIS2  ", "        ", "END     ", "COMMENT ", "NAXISX  "}

ValueFields ==
    {"", "   ", "\t ", "5", "  5  ", "X", "  X", "'open", "T", "TRUE", "1E5", "(1, 2.5",
     "-", "..", "= 5", "'a'  "}

CommentFields == {"", "/", "/ note", "/  spaced note   ", "/ a / b", "/no\tte"}

ValueLineOf(c) == Pad(c.keyword \o "= " \o c.field \o c.comment)

InitValueLine ==
    /\ stream \in [keyword : UndefinedKeywords, field : ValueFields, comment : CommentFields]
    /\ input = ValueLineOf(stream)
    /\ op = "new"
    /\ outcome = NoOutcome
    /\ header = None
    /\ records = <<>>
    /\ parse_more = TRUE
    /\ start = 0
    /\ consumed = 0
    /\ completes = 0
    /\ fed = 0
    /\ buf = ""
    /\ whole = NoOutcome

ApplyValueLine ==
    /\ op = "new"
    /\ outcome' = header_record(input)
    /\ op' = "header_record"
    /\ UNCHANGED <<records, parse_more, start, consumed, input, header,
                   stream, fed, buf, completes, whole>>

NextValueLine == ApplyValueLine

SpecValueLine == InitValueLine /\ [][NextValueLine]_vars

(* The line is a value line of printable comment: its keyword field is a   *)
(* keyword other than COMMENT and HISTORY, whose lines are commentary.     *)
IsValueLine ==
    /\ Keyword_from_str(stream.keyword).tag = "Ok"
    /\ stream.keyword \notin {"COMMENT ", "HISTORY "}
    /\ AllAsciiText(stream.comment)

IsUndefinedRecord(r) ==
    IsOk(r) /\ r.val.type = "KeywordRecord" /\ r.val.value.type = "Undefined"

(* C25: a value line decodes to a KeywordRecord with value Undefined if    *)
(* and only if only whitespace lies between the value indicator and the    *)
(* comment or the end of the line; the comment, when there is one, is kept *)
(* with the whitespace around it trimmed; and a value field that is not    *)
(* blank and matches no value alternative makes the line fail.             *)
C25_UndefinedIffAbsent ==
    op = "header_record" /\ IsValueLine =>
        /\ IsUndefinedRecord(outcome) <=> Trimmed(stream.field) = ""
        /\ IsOk(outcome) =>
              /\ outcome.val.type = "KeywordRecord"
              /\ outcome.val.comment =
                    IF stream.comment = "" THEN None
                    ELSE Some(Trimmed(Drop(stream.comment, 1)))
        /\ Trimmed(stream.field) # "" /\ ~IsOk(value(Trimmed(stream.field))) => ~IsOk(outcome)

C25_Witness ==
    /\ op = "header_record"
    /\ stream = [keyword |-> "MYKEY   ", field |-> "\t ", comment |-> "/  spaced note   "]
    /\ IsUndefinedRecord(outcome)
    /\ outcome.val.keyword = KwUnrecognized("MYKEY")
    /\ outcome.val.comment = Some("spaced note")

(* A value field that matches no value alternative: the line fails. *)
C25_FailWitness ==
    /\ op = "header_record"
    /\ stream = [keyword |-> "BITPIX  ", field |-> "  X", comment |-> "/ note"]
    /\ ~IsOk(outcome)

-----------------------------------------------------------------------------
(* lmle as a function of n, with k the bits of a block: input is n, as     *)
(* [top, val], which stands for val, or for 2^64 - val when top is TRUE;   *)
(* outcome is the result of lmle on it and whole the result of lmle on     *)
(* that result.                                                             *)

MaxRoundBlocks == 3

BLOCK_BITS == FITS_BLOCK_SIZE * 8

(* 2^64 % BLOCK_BITS: the distance of the largest multiple below 2^64. *)
TopGap == Pow2Mod(64, BLOCK_BITS)

RoundOffsets == {0, 1, 7, 8, 2880, 11520, BLOCK_BITS - 8, BLOCK_BITS - 1}

RoundingInputs ==
    {[top |-> FALSE, val |-> b * BLOCK_BITS + d] : b \in 0..MaxRoundBlocks, d \in RoundOffsets}
    \cup {[top |-> TRUE, val |-> TopGap + b * BLOCK_BITS + d] :
             b \in 0..(MaxRoundBlocks - 1), d \in RoundOffsets}
    \cup {[top |-> TRUE, val |-> m] : m \in {1, 8, 160, 2880, TopGap - 1}}

lmle_of(n) ==
    IF n.top THEN lmle_near_max(n.val, BLOCK_BITS)
    ELSE [tag |-> "Ok", top |-> FALSE, val |-> lmle(n.val, BLOCK_BITS)]

InitRounding ==
    /\ input \in RoundingInputs
    /\ op = "new"
    /\ outcome = NoOutcome
    /\ header = None
    /\ records = <<>>
    /\ parse_more = TRUE
    /\ start = 0
    /\ consumed = 0
    /\ completes = 0
    /\ NoChunks

Lmle ==
    /\ op = "new"
    /\ outcome' = lmle_of(input)
    /\ op' = "lmle"
    /\ UNCHANGED <<records, parse_more, start, consumed, input, header,
                   stream, fed, buf, completes, whole>>

LmleAgain ==
    /\ op = "lmle"
    /\ outcome.tag = "Ok"
    /\ whole' = lmle_of([top |-> outcome.top, val |-> outcome.val])
    /\ op' = "lmle_again"
    /\ UNCHANGED <<records, parse_more, start, consumed, input, outcome, header,
                   stream, fed, buf, completes>>

NextRounding == Lmle \/ LmleAgain

SpecRounding == InitRounding /\ [][NextRounding]_vars

(* n is a multiple of the bits of a block. *)
IsBlockMultiple(n) ==
    IF n.top THEN (n.val - TopGap) % BLOCK_BITS = 0 ELSE n.val % BLOCK_BITS = 0

(* b - a, for a and b on the same side of the range. *)
UsizeDiff(a, b) == IF a.top THEN a.val - b.val ELSE b.val - a.val

(* outcome is the least multiple of a block's bits that is >= the input. *)
IsLeastMultipleAbove ==
    /\ outcome.tag = "Ok"
    /\ outcome.top = input.top
    /\ IsBlockMultiple(outcome)
    /\ UsizeDiff(input, outcome) \in 0..(BLOCK_BITS - 1)
    /\ IsBlockMultiple(input) => outcome.val = input.val

(* C26: lmle(n, k) with k the bits of a block is the least multiple of k   *)
(* that is >= n: n itself when n is a multiple of k (0 for 0), else the    *)
(* next multiple above n, so that n <= lmle(n, k) < n + k, and lmle of the *)
(* result is the result.                                                    *)
C26_LeastMultipleAbove ==
    /\ op \in {"lmle", "lmle_again"} => IsLeastMultipleAbove
    /\ op = "lmle_again" => whole = outcome
    /\ op = "lmle" /\ input = [top |-> FALSE, val |-> 0] => outcome.val = 0

(* The same for every n up to the largest multiple of k below 2^64; above  *)
(* it the multiplication overflows.                                         *)
C26_LeastMultipleBelowTop ==
    /\ op \in {"lmle", "lmle_again"} =>
          IF input.top /\ input.val < TopGap
          THEN outcome = [tag |-> "Overflow", top |-> FALSE, val |-> BLOCK_BITS - TopGap]
          ELSE IsLeastMultipleAbove
    /\ op = "lmle_again" => whole = outcome
    /\ TopGap = 19456

-----------------------------------------------------------------------------
(* Claims about failing and truncated input.                               *)

(* C28: a parse_record call that returns Error leaves records, consumed,   *)
(* parse_more and start as they were, and a call on fewer than 80 bytes,   *)
(* the empty input included, returns Error (Incomplete): it accepts no     *)
(* record.                                                                   *)
C28_ErrorLeavesAssemblerUnchanged ==
    [][op' = "parse_record" =>
          /\ outcome'.tag = "Error" =>
                /\ records' = records
                /\ consumed' = consumed
                /\ parse_more' = parse_more
                /\ start' = start
          /\ Len(input') < KEYWORD_LINE_LENGTH => outcome' = OutcomeError("Incomplete")]_vars

C28_Witness ==
    /\ op = "parse_record"
    /\ input = ""
    /\ outcome = OutcomeError("Incomplete")
    /\ Len(records) = 2
    /\ records[1].type = "KeywordRecord"
    /\ records[2].type = "EndRecord"
    /\ ~parse_more
    /\ consumed = 2 * KEYWORD_LINE_LENGTH

(* A malformed line: Error, with the records gathered so far kept. *)
C28_MalformedWitness ==
    /\ op = "parse_record"
    /\ input = LineGarbage
    /\ outcome = OutcomeError("Error")
    /\ Len(records) = 1
    /\ parse_more

(* The loop of parse_header has ended within one call of parse_record more *)
(* than the input has whole lines.                                          *)
EndsWithinBound(self, in) ==
    ~parse_header_loop(self, in, Len(in) \div KEYWORD_LINE_LENGTH + 1).more

(* C29: parse_header ends within floor(len / 80) + 1 calls of parse_record *)
(* and returns Ok(remainder) or Err; it returns Ok only when an END line   *)
(* and the blank padding up to a multiple of 2880 bytes have been          *)
(* consumed, and Err when the input ends before that.                      *)
C29_ParseHeaderReturns ==
    [][op' = "parse_header" =>
          /\ EndsWithinBound(Self, input')
          /\ outcome'.tag \in {"Ok", "Error"}
          /\ outcome'.tag = "Ok" => ~parse_more' /\ consumed' % FITS_BLOCK_SIZE = 0]_vars

(* The same with the third way out: the panic of parse_record on a line    *)
(* after END that is no blank line.                                         *)
C29_ParseHeaderEnds ==
    [][op' = "parse_header" =>
          /\ EndsWithinBound(Self, input')
          /\ outcome'.tag \in {"Ok", "Error", "Panic"}
          /\ outcome'.tag = "Ok" => ~parse_more' /\ consumed' % FITS_BLOCK_SIZE = 0
          /\ outcome'.tag = "Panic" =>
                /\ ~parse_more'
                /\ Len(input') >= KEYWORD_LINE_LENGTH * (Len(records') - Len(records) + 1)]_vars

-----------------------------------------------------------------------------
(* Walking a file: the assembler is given the bytes of a header, the       *)
(* Header is taken from it, and the Header is asked where its data end.     *)
(* input holds the bytes, header the Header taken.                          *)

MaxLead == 36          \* blank lines in front of the first keyword line

AlignStarts == {0, 2 * FITS_BLOCK_SIZE, KEYWORD_LINE_LENGTH}

AlignFirst == {Pad("SIMPLE  =                    T"), Pad("XTENSION= 'IMAGE   '")}

AlignBitpix == {Pad("BITPIX  =                    8"), Pad("BITPIX  =                  -32")}

AlignAxes ==
    {Pad("NAXIS   = 0"),
     Pad("NAXIS   = 2") \o Pad("NAXIS1  = 3") \o Pad("NAXIS2  = 5"),
     Pad("NAXIS   = 2") \o Pad("NAXIS1  = 300") \o Pad("NAXIS2  = 0"),
     Pad("NAXIS   = 2") \o Pad("NAXIS1  = 300") \o Pad("NAXIS2  = 100"),
     Pad("NAXIS   = 2") \o Pad("NAXIS1  = 3") \o Pad("NAXIS2  = -5"),
     Pad("NAXIS   = 2") \o Pad("NAXIS1  = 3")}

AlignCounts ==
    {"", Pad("GCOUNT  = 2") \o Pad("PCOUNT  = 11"), Pad("PCOUNT  = -20"),
     Pad("GCOUNT  = -1"), Pad("GCOUNT  = 'one'") \o Pad("PCOUNT  = 0")}

(* The keyword lines and END, filled up with blank lines to whole blocks   *)
(* (fill = 0), or followed by two blank lines only (fill = 1), or filled   *)
(* up and followed by the first bytes of the data (fill = 2).               *)
AlignBytes(lead, lines, fill) ==
    With(Repeat(LineBlank, lead) \o lines \o LineEnd, LAMBDA text :
        IF fill = 1 THEN text \o Repeat(LineBlank, 2)
        ELSE text \o Repeat(LineBlank,
                            (lmle(Len(text), FITS_BLOCK_SIZE) - Len(text)) \div KEYWORD_LINE_LENGTH)
                  \o (IF fill = 2 THEN "data" ELSE ""))

AlignInputs ==
    {AlignBytes(lead, f \o b \o a \o c, fill) :
        lead \in {0, MaxLead}, f \in AlignFirst, b \in AlignBitpix, a \in AlignAxes,
        c \in AlignCounts, fill \in {0, 1, 2}}

InitAlign ==
    /\ \E s \in AlignStarts :
          /\ records = HeaderParser_new(s).records
          /\ parse_more = HeaderParser_new(s).parse_more
          /\ start = HeaderParser_new(s).start
          /\ consumed = HeaderParser_new(s).consumed
    /\ input \in AlignInputs
    /\ op = "new"
    /\ outcome = NoOutcome
    /\ header = None
    /\ completes = 0
    /\ NoChunks

(* parse_header on the bytes of the header. *)
ParseBlock ==
    /\ op = "new"
    /\ \E res \in {parse_header(Self, input)} :
          /\ SetSelf(res.self)
          /\ outcome' = res.out
          /\ completes' = completes + (IF res.out.tag = "Ok" THEN 1 ELSE 0)
    /\ op' = "parse_header"
    /\ UNCHANGED <<input, header, stream, fed, buf, whole>>

(* into_header, whatever parse_header returned. *)
TakeHeader ==
    /\ op = "parse_header"
    /\ header' = Some(into_header(Self))
    /\ op' = "into_header"
    /\ UNCHANGED <<records, parse_more, start, consumed, input, outcome,
                   stream, fed, buf, completes, whole>>

BitsOfHeader ==
    /\ op = "into_header"
    /\ outcome' = data_array_bits(header[1])
    /\ op' = "data_array_bits"
    /\ UNCHANGED <<records, parse_more, start, consumed, input, header,
                   stream, fed, buf, completes, whole>>

NextOfHeader ==
    /\ op = "into_header"
    /\ outcome' = next_header(header[1])
    /\ op' = "next_header"
    /\ UNCHANGED <<records, parse_more, start, consumed, input, header,
                   stream, fed, buf, completes, whole>>

NextAlign == ParseBlock \/ TakeHeader \/ BitsOfHeader \/ NextOfHeader

SpecAlign == InitAlign /\ [][NextAlign]_vars

(* The number an Integer keyword record gives for the keyword is not       *)
(* negative; otherwise is what a keyword without such a record counts as.  *)
NotNegative(self, keyword, otherwise) ==
    unwrap_or(integer_value_of(self, keyword), otherwise) >= 0

(* Every axis up to NAXIS, GCOUNT and PCOUNT are not negative. *)
SizesNonNegative(self) ==
    /\ \A n \in 1..unwrap_or(integer_value_of(self, KwFixed("NAXIS")), 0) :
          NotNegative(self, KwIndexed("NAXIS", n), -1)
    /\ NotNegative(self, KwFixed("GCOUNT"), 1)
    /\ NotNegative(self, KwFixed("PCOUNT"), 0)

(* The Header was taken from an assembler that had completed it, at a      *)
(* start that is a multiple of the block size, and its sizes are not       *)
(* negative.                                                                *)
AlignedHeader ==
    /\ header # None
    /\ is_complete(Self)
    /\ header[1].start % FITS_BLOCK_SIZE = 0
    /\ SizesNonNegative(header[1])

(* C30: for a Header whose start is a multiple of 2880, completed by the   *)
(* assembler, with NAXISn, GCOUNT and PCOUNT not negative,                  *)
(* data_array_bits() is a multiple of 2880 * 8, and next_header() is a     *)
(* multiple of 2880 and at least start + length.                            *)
C30_BlockAlignment ==
    AlignedHeader =>
        /\ op = "data_array_bits" =>
              /\ outcome.tag = "Ok"
              /\ outcome.val % (FITS_BLOCK_SIZE * 8) = 0
        /\ op = "next_header" =>
              /\ outcome.tag = "Ok"
              /\ outcome.val % FITS_BLOCK_SIZE = 0
              /\ outcome.val >= header[1].start + header[1].length

(* An extension header of two blocks at 5760, with 8 * 2 * (11 + 15) bits  *)
(* of data: the next header is one block after its end.                     *)
C30_Witness ==
    /\ AlignedHeader
    /\ op = "next_header"
    /\ header[1].start = 2 * FITS_BLOCK_SIZE
    /\ header[1].length = 2 * FITS_BLOCK_SIZE
    /\ ~is_primary(header[1])
    /\ outcome = ROk(5 * FITS_BLOCK_SIZE)

(* A primary header with 8 * 300 * 100 bits of data, which take 11 blocks. *)
C30_BitsWitness ==
    /\ AlignedHeader
    /\ op = "data_array_bits"
    /\ is_primary(header[1])
    /\ outcome = ROk(11 * FITS_BLOCK_SIZE * 8)

(* The conditions are needed: a Header taken before the assembler has      *)
(* completed it ends inside a block, and so does one that starts there.    *)
C30_ConditionsWitness ==
    /\ op = "next_header"
    /\ header[1].start = 0
    /\ ~is_complete(Self)
    /\ SizesNonNegative(header[1])
    /\ outcome.tag = "Ok"
    /\ outcome.val % FITS_BLOCK_SIZE # 0
=============================================================================
